---- MODULE Spec2Model ----
(***************************************************************************)
(* Model of the Slack <-> Matt-GPT bridge of src/app.js.                   *)
(*                                                                         *)
(* Strings that the code inspects character by character (block ids and    *)
(* conversation ids) are sequences of one-character strings.  Texts that   *)
(* the code only tests for whole words (message texts, error descriptions) *)
(* are sequences of tokens.  JavaScript null/undefined is the value Null.  *)
(***************************************************************************)
EXTENDS Integers, Sequences, FiniteSets, TLC

\* ------------------------------------------------------------------------
\* Bounds of the model
\* ------------------------------------------------------------------------
\* number of messages the environment posts into the workspace
MaxPosts == 2
\* number of handler invocations that may be running when a message is posted
MaxInFlight == 1
\* longest thread history drawn for the stand-alone check of the scan
MaxHist == 4
\* longest text, in tokens, drawn for the stand-alone check of the cleaning
MaxText == 3

\* ------------------------------------------------------------------------
\* JavaScript values
\* ------------------------------------------------------------------------
Null == <<"NULL">>

\* `${v}` : the text form of a value inside a template literal
Str(v) == IF v = Null THEN <<"n", "u", "l", "l">> ELSE v

\* truthiness of a string-or-null value (null, undefined and "" are falsy)
Truthy(v) == v # Null /\ v # <<>>

\* String.prototype.startsWith
StartsWith(s, p) == Len(s) >= Len(p) /\ SubSeq(s, 1, Len(p)) = p

\* String.prototype.indexOf, 1-based, 0 when p does not occur in s
IndexOf(s, p) ==
  LET hits == { i \in 1..(Len(s) - Len(p) + 1) : SubSeq(s, i, i + Len(p) - 1) = p }
  IN  IF hits = {} THEN 0 ELSE CHOOSE i \in hits : \A j \in hits : i <= j

\* String.prototype.replace with a string pattern: only the first occurrence
ReplaceFirst(s, p, r) ==
  LET i == IndexOf(s, p)
  IN  IF i = 0 THEN s
      ELSE SubSeq(s, 1, i - 1) \o r \o SubSeq(s, i + Len(p), Len(s))

\* replacement of every occurrence (what a /conv_/g pattern would do)
RECURSIVE ReplaceEvery(_, _, _)
ReplaceEvery(s, p, r) ==
  LET i == IndexOf(s, p)
  IN  IF i = 0 THEN s
      ELSE SubSeq(s, 1, i - 1) \o r \o ReplaceEvery(SubSeq(s, i + Len(p), Len(s)), p, r)

\* the fixed tag 'conv_'
CONV == <<"c", "o", "n", "v", "_">>

\* ------------------------------------------------------------------------
\* Conversation codec
\* ------------------------------------------------------------------------
RECURSIVE ScanBlocksEvery(_)
ScanBlocksEvery(blocks) ==
  IF blocks = <<>> THEN Null
  ELSE IF Truthy(Head(blocks).block_id) /\ StartsWith(Head(blocks).block_id, CONV)
       THEN ReplaceEvery(Head(blocks).block_id, CONV, <<>>)
       ELSE ScanBlocksEvery(Tail(blocks))

\* the for-loop of extractConversationId over message.blocks
RECURSIVE ScanBlocks(_)
ScanBlocks(blocks) ==
  IF blocks = <<>> THEN Null
  ELSE IF Truthy(Head(blocks).block_id) /\ StartsWith(Head(blocks).block_id, CONV)
       THEN ReplaceFirst(Head(blocks).block_id, CONV, <<>>)
       ELSE ScanBlocks(Tail(blocks))

ExtractConversationId_every(message) == ScanBlocksEvery(message.blocks)

\* extractConversationId(message); a message without blocks has blocks = <<>>
ExtractConversationId(message) == ScanBlocks(message.blocks)

\* createMessageWithConversationId(text, conversationId, threadTs)
CreateMessageWithConversationId(text, conversationId, threadTs) ==
  [ text      |-> text,
    thread_ts |-> threadTs,
    blocks    |-> << [ type     |-> "section",
                       block_id |-> CONV \o Str(conversationId),
                       text     |-> text ] >> ]

\* ------------------------------------------------------------------------
\* History reconstruction (the scan of processMessageRequest)
\* ------------------------------------------------------------------------
\* Array.prototype.reverse
RECURSIVE Reverse(_)
Reverse(s) == IF s = <<>> THEN <<>> ELSE Append(Reverse(Tail(s)), Head(s))

\* the scan without the bot_id test
RECURSIVE ScanMessages_anyAuthor(_)
ScanMessages_anyAuthor(msgs) ==
  IF msgs = <<>> THEN Null
  ELSE IF Truthy(ExtractConversationId(Head(msgs)))
       THEN ExtractConversationId(Head(msgs))
       ELSE ScanMessages_anyAuthor(Tail(msgs))

\* for (const msg of ...) { if (msg.bot_id) { id = extract(msg); if (id) break } }
RECURSIVE ScanMessages(_)
ScanMessages(msgs) ==
  IF msgs = <<>> THEN Null
  ELSE IF Truthy(Head(msgs).bot_id) /\ Truthy(ExtractConversationId(Head(msgs)))
       THEN ExtractConversationId(Head(msgs))
       ELSE ScanMessages(Tail(msgs))

\* the scan without the reverse(): oldest message first
LocateConversationId_oldestFirst(messages) == ScanMessages(messages)

\* conversationId after the loop over threadHistory.messages.reverse()
LocateConversationId(messages) == ScanMessages(Reverse(messages))

\* the test looking for messages of this app only
HasBotMessages_ownOnly(messages) ==
  \E i \in 1..Len(messages) : messages[i].bot_id = <<"B1">>

\* only bot messages that carry a conversation id count
HasBotMessages_idBearing(messages) ==
  \E i \in 1..Len(messages) :
    Truthy(messages[i].bot_id) /\ Truthy(ExtractConversationId(messages[i]))

\* threadHistory.messages.some(msg => msg.bot_id)
HasBotMessages(messages) == \E i \in 1..Len(messages) : Truthy(messages[i].bot_id)

\* located id wins over the id of the response
ResponseConversationId_locatedWins(respId, conversationId) ==
  IF Truthy(conversationId) THEN conversationId ELSE respId

\* mattGPTResponse.conversation_id || conversationId
ResponseConversationId(respId, conversationId) ==
  IF Truthy(respId) THEN respId ELSE conversationId

\* ------------------------------------------------------------------------
\* Backend client (callMattGPTWithRetry)
\* ------------------------------------------------------------------------
\* the maxRetries argument of the call in processMessageRequest
maxRetries == 3

RECURSIVE Pow2(_)
Pow2(n) == IF n = 0 THEN 1 ELSE 2 * Pow2(n - 1)

\* linear instead of exponential backoff
Delay_linear(attempt) == attempt * 1000

\* Math.pow(2, attempt) * 1000, in milliseconds
Delay(attempt) == Pow2(attempt) * 1000

\* the thrown description without the cause of the failed attempt
RetryError_noCause(retries, cause) ==
  <<"Matt-GPT", "API", "failed", "after", ToString(retries), "attempts:">>

\* the error of the last attempt thrown again as it is
RetryError_causeOnly(retries, cause) == cause

\* `Matt-GPT API failed after ${maxRetries} attempts: ${error.message}`
RetryError(retries, cause) ==
  <<"Matt-GPT", "API", "failed", "after", ToString(retries), "attempts:">> \o cause


\* ------------------------------------------------------------------------
\* Admission helpers
\* ------------------------------------------------------------------------
\* process.env.SLACK_BOT_USER_ID || 'U09BR46BEV8'
BOT_USER_ID == "U09BR46BEV8"
\* bot_id the platform stamps on the messages this app posts
OWN_BOT_ID == <<"B1">>
\* bot_id of some other integration
OTHER_BOT_ID == <<"B2">>

BotMention == "<@U09BR46BEV8>"
MentionTokens == { BotMention, "<@U09BR46BEV8|matt>", "<@U2>" }
SpaceTokens == { " " }

\* channelId.startsWith('D')
isDMChannel(channelId) == channelId \in { "D1" }
\* channelId.startsWith('G')
isProbablyGroupDMOrPrivateChannel(channelId) == channelId \in { "G1" }

RECURSIVE TrimLeft(_)
TrimLeft(text) ==
  IF text # <<>> /\ Head(text) \in SpaceTokens THEN TrimLeft(Tail(text)) ELSE text

\* String.prototype.trim on a token sequence
Trim(text) == Reverse(TrimLeft(Reverse(TrimLeft(text))))

\* the pattern without its ^ anchor and with the g flag: every mention goes
RECURSIVE DropMentions(_)
DropMentions(text) ==
  IF text = <<>> THEN <<>>
  ELSE IF Head(text) \in MentionTokens THEN DropMentions(TrimLeft(Tail(text)))
  ELSE << Head(text) >> \o DropMentions(Tail(text))

cleanMessageText_everyMention(text) ==
  IF text = <<>> THEN text ELSE Trim(DropMentions(text))

\* cleanMessageText(text): drop one leading mention token and the blanks after it
cleanMessageText(text) ==
  IF text = <<>> THEN text
  ELSE Trim(IF Head(text) \in MentionTokens THEN Tail(text) ELSE text)

\* a test for the mention that never finds one
containsMention_never(text) == FALSE

\* text.includes(`<@${BOT_USER_ID}>`)
containsMention(text) == \E i \in 1..Len(text) : text[i] = BotMention

\* String.prototype.toLowerCase on the tokens used here
Lower(tok) ==
  CASE tok = "Side Note" -> "side note"
    [] tok = "SIDENOTE"  -> "sidenote"
    [] tok = "Side-Note" -> "side-note"
    [] OTHER             -> tok

\* the test without toLowerCase
IsSideNote_caseSensitive(cleanedText) ==
  /\ cleanedText # <<>>
  /\ Head(cleanedText) \in { "side note", "sidenote", "side-note" }

\* lowerText.startsWith('side note') || ...('sidenote') || ...('side-note')
IsSideNote(cleanedText) ==
  /\ cleanedText # <<>>
  /\ Lower(Head(cleanedText)) \in { "side note", "sidenote", "side-note" }

\* ------------------------------------------------------------------------
\* Texts and failures
\* ------------------------------------------------------------------------
ThinkingText == <<"Thinking...">>
ConfigErrorText == <<"Matt-GPT", "API", "is", "not", "configured.">>
ConfigKeyErrorText == <<"OpenRouter", "API", "key", "is", "not", "configured.">>
TimeoutText == <<"Request", "timed", "out.", "Please", "try", "again.">>
BusyText == <<"Service", "is", "busy.", "Please", "wait", "a", "moment", "and", "try", "again.">>
UnavailableText == <<"Matt-GPT", "is", "temporarily", "unavailable.", "Please", "try", "again", "later.">>
UnknownText == <<"Something", "went", "wrong.", "Please", "try", "again.">>
ApologyTexts == { TimeoutText, BusyText, UnavailableText, UnknownText }

\* String.prototype.includes within one token: the tokens used here that hold
\* the word as a substring
Contains(tok, word) ==
  \/ tok = word
  \/ word = "rate" /\ tok = "ratelimited"

\* error.message.includes(word), on the tokens of the description
Includes(msg, word) == \E i \in 1..Len(msg) : Contains(msg[i], word)

\* the catch block asks "API" first
UserMessage_apiFirst(errorMessage) ==
  IF Includes(errorMessage, "API") THEN UnavailableText
  ELSE IF Includes(errorMessage, "timeout") THEN TimeoutText
  ELSE IF Includes(errorMessage, "rate") THEN BusyText
  ELSE UnknownText

\* the if / else-if chain of the catch block of processMessageRequest
UserMessage(errorMessage) ==
  IF Includes(errorMessage, "timeout") THEN TimeoutText
  ELSE IF Includes(errorMessage, "rate") THEN BusyText
  ELSE IF Includes(errorMessage, "API") THEN UnavailableText
  ELSE UnknownText

\* descriptions of a failed backend attempt (error.message of the HTTP client)
Causes == { <<"timeout", "of", "30000ms", "exceeded">>,
            <<"Request", "failed", "with", "status", "code", "500">> }

\* description of a failed platform call
PlatformError == <<"An", "API", "error", "occurred:", "channel_not_found">>

\* descriptions of a failed platform call inside processMessageRequest
\* (error.message of the platform client)
PlatformErrors ==
  { PlatformError,
    <<"An", "API", "error", "occurred:", "ratelimited">>,
    <<"A", "request", "error", "occurred:", "socket", "hang", "up">> }

\* conversation ids the backend may return
IdA == <<"a">>
IdB == <<"c", "o", "n", "v", "_", "b">>
BackendIds == { IdA, IdB }

\* bodies of a 2xx backend response
AnswerText == <<"answer">>
Responses == { [ response |-> AnswerText, conversation_id |-> c ] : c \in BackendIds \cup { Null } }
NoResponse == [ response |-> <<>>, conversation_id |-> Null ]

\* ------------------------------------------------------------------------
\* State
\* ------------------------------------------------------------------------
VARIABLES
  MONITORED_CHANNEL,      \* process.env.SLACK_CHANNEL_ID, "" when not set
  MATT_GPT_BEARER_TOKEN,  \* TRUE when the variable is set
  OPENROUTER_API_KEY,     \* TRUE when the variable is set
  threads,                \* the platform's message log: thread anchor -> messages
  clock,                  \* the next message timestamp the platform hands out
  inbox,                  \* events the platform has not delivered yet
  tasks,                  \* running handler invocations: task id -> locals
  posts,                  \* number of messages posted by the environment
  probe                   \* input and result of a helper exercised on its own

vars == << MONITORED_CHANNEL, MATT_GPT_BEARER_TOKEN, OPENROUTER_API_KEY,
           threads, clock, inbox, tasks, posts, probe >>

config == << MONITORED_CHANNEL, MATT_GPT_BEARER_TOKEN, OPENROUTER_API_KEY >>

\* the two texts of the direct-message branch of app.message
RedirectText ==
  IF MONITORED_CHANNEL # ""
  THEN <<"Hi", "there!", "I", "only", "respond", "to", "messages", "in", "<#", MONITORED_CHANNEL, ">">>
  ELSE <<"Hi", "there!", "I", "only", "respond", "to", "messages", "in", "channels,", "not", "DMs.">>

\* a stored message, with the fields the handlers read back
Entry(ts, channel, user, bot_id, text, blocks) ==
  [ ts |-> ts, channel |-> channel, user |-> user, bot_id |-> bot_id,
    text |-> text, blocks |-> blocks ]

\* a message posted by this app
BotEntry(ts, channel, text, blocks) ==
  Entry(ts, channel, BOT_USER_ID, OWN_BOT_ID, text, blocks)

\* thread_ts alone, absent for a root-level message
Anchor_threadOnly(ev) == ev.thread_ts

\* thread_ts || ts
Anchor(ev) == IF ev.thread_ts # 0 THEN ev.thread_ts ELSE ev.ts

\* thread_ts alone
isThreadReply_anchorPresent(ev) == ev.thread_ts # 0

\* thread_ts && thread_ts !== ts
isThreadReply(ev) == ev.thread_ts # 0 /\ ev.thread_ts # ev.ts

\* the platform stores message m under thread anchor a
AppendTo(th, a, m) ==
  IF a \in DOMAIN th THEN [ th EXCEPT ![a] = Append(@, m) ] ELSE th @@ (a :> <<m>>)

\* the messages of every thread, thread after thread
RECURSIVE AllThreads(_)
AllThreads(anchors) ==
  IF anchors = {} THEN <<>>
  ELSE LET a == CHOOSE x \in anchors : \A y \in anchors : x <= y
       IN  threads[a] \o AllThreads(anchors \ { a })

\* the fetch returns the history of the whole channel
Replies_wholeChannel(a) == AllThreads(DOMAIN threads)

\* the limit argument of both calls of client.conversations.replies
fetchLimit == 50

\* client.conversations.replies({channel, ts, limit: 50}) when it succeeds:
\* without a cursor the platform returns the first page of the thread, the
\* parent message and the replies after it, oldest first
Replies(a) ==
  IF Len(threads[a]) <= fetchLimit THEN threads[a] ELSE SubSeq(threads[a], 1, fetchLimit)

\* the reply is posted as a new message of the thread, the placeholder stays
Edited_reposted(th, a, ts, payload) ==
  [ th EXCEPT ![a] = Append(@, BotEntry(ts + 1, @[1].channel, payload.text, payload.blocks)) ]

\* the platform applies chat.update({channel, ts, ...payload})
Edited(th, a, ts, payload) ==
  [ th EXCEPT ![a] = [ i \in 1..Len(@) |->
      IF @[i].ts = ts
      THEN [ @[i] EXCEPT !.text = payload.text, !.blocks = payload.blocks ]
      ELSE @[i] ] ]

TaskId(del) == << del.path, del.ev.ts >>

\* the message event the platform sends for a message this app posted
OwnEvent(ts, channel, thread_ts, text) ==
  [ path |-> "message",
    ev   |-> [ channel |-> channel, user |-> BOT_USER_ID, ts |-> ts,
               thread_ts |-> thread_ts, text |-> text, bot_id |-> OWN_BOT_ID,
               bot_profile |-> TRUE, subtype |-> "" ] ]

\* the message event the platform sends for a message this app edited
EditEvent(ts, channel) ==
  [ path |-> "message",
    ev   |-> [ channel |-> channel, user |-> "", ts |-> ts,
               thread_ts |-> 0, text |-> <<>>, bot_id |-> Null,
               bot_profile |-> FALSE, subtype |-> "message_changed" ] ]

\* locals of a handler invocation before its first statement
NewTask(del) ==
  [ path |-> del.path, ev |-> del.ev, pc |-> "start",
    cleanedText |-> <<>>, conversationId |-> Null,
    admit |-> "none", fetch |-> "none", seen |-> <<>>,
    thinkingTs |-> 0, attempt |-> 0, delays |-> <<>>, causes |-> <<>>,
    requests |-> <<>>, response |-> NoResponse, error |-> Null,
    sayText |-> <<>>, embedded |-> Null, payloadThread |-> 0,
    outcome |-> "", calls |-> <<>> ]

\* one awaited call of a handler to the platform or to the backend: the step
\* of the handler that made it, whether it returned, the channel and the
\* timestamp it named, and the text it carried
Call(step, ok, channel, ts, text) ==
  [ step |-> step, ok |-> ok, channel |-> channel, ts |-> ts, text |-> text ]

\* the invocation with one more call on its record
Did(task, step, ok, ts, text) ==
  [ task EXCEPT !.calls = Append(@, Call(step, ok, task.ev.channel, ts, text)) ]

Ignored(task) == [ task EXCEPT !.pc = "done", !.outcome = "ignored" ]

\* processMessageRequest checking the bearer token only
ProcessMessageRequest_tokenOnly(task) ==
  LET cleaned == cleanMessageText(task.ev.text)
      t1 == [ task EXCEPT !.cleanedText = cleaned ]
  IN  IF IsSideNote(cleaned)
        THEN [ t1 EXCEPT !.pc = "done", !.outcome = "skipped" ]
      ELSE IF ~MATT_GPT_BEARER_TOKEN
        THEN [ t1 EXCEPT !.pc = "config_say", !.sayText = ConfigErrorText ]
      ELSE IF isThreadReply(task.ev)
        THEN [ t1 EXCEPT !.pc = "locate" ]
      ELSE [ t1 EXCEPT !.pc = "thinking" ]

\* processMessageRequest from its first statement to its first await
ProcessMessageRequest(task) ==
  LET cleaned == cleanMessageText(task.ev.text)
      t1 == [ task EXCEPT !.cleanedText = cleaned ]
  IN  IF IsSideNote(cleaned)
        THEN [ t1 EXCEPT !.pc = "done", !.outcome = "skipped" ]
      ELSE IF ~MATT_GPT_BEARER_TOKEN
        THEN [ t1 EXCEPT !.pc = "config_say", !.sayText = ConfigErrorText ]
      ELSE IF ~OPENROUTER_API_KEY
        THEN [ t1 EXCEPT !.pc = "config_say", !.sayText = ConfigKeyErrorText ]
      ELSE IF isThreadReply(task.ev)
        THEN [ t1 EXCEPT !.pc = "locate" ]
      ELSE [ t1 EXCEPT !.pc = "thinking" ]

\* the event carries one of the markers of an automated author
Automated(ev) ==
  \/ Truthy(ev.bot_id)
  \/ ev.bot_profile
  \/ ev.user = "USLACKBOT"
  \/ ev.subtype # "" /\ ev.subtype # "thread_broadcast"

\* app.message without its four author checks
MessageHandler_noAuthorChecks(task) ==
  LET ev == task.ev
  IN  IF isDMChannel(ev.channel)
        THEN [ task EXCEPT !.pc = "redirect", !.sayText = RedirectText ]
      ELSE IF MONITORED_CHANNEL # "" /\ ev.channel # MONITORED_CHANNEL
        THEN Ignored(task)
      ELSE IF containsMention(ev.text) THEN Ignored(task)
      ELSE IF isThreadReply(ev) THEN [ task EXCEPT !.pc = "admit_fetch" ]
      ELSE Ignored(task)

\* app.message with the group-conversation branch not asking for a monitored channel
MessageHandler_groupsIgnored(task) ==
  LET ev == task.ev
  IN  IF Automated(ev) THEN Ignored(task)
      ELSE IF isDMChannel(ev.channel)
        THEN [ task EXCEPT !.pc = "redirect", !.sayText = RedirectText ]
      ELSE IF isProbablyGroupDMOrPrivateChannel(ev.channel) /\ ev.channel # MONITORED_CHANNEL
        THEN Ignored(task)
      ELSE IF MONITORED_CHANNEL # "" /\ ev.channel # MONITORED_CHANNEL
        THEN Ignored(task)
      ELSE IF containsMention(ev.text) THEN Ignored(task)
      ELSE IF isThreadReply(ev) THEN [ task EXCEPT !.pc = "admit_fetch" ]
      ELSE Ignored(task)

\* app.message answering root-level messages without a mention as well
MessageHandler_rootAnswered(task) ==
  LET ev == task.ev
  IN  IF Automated(ev) THEN Ignored(task)
      ELSE IF isDMChannel(ev.channel)
        THEN [ task EXCEPT !.pc = "redirect", !.sayText = RedirectText ]
      ELSE IF MONITORED_CHANNEL # "" /\ ev.channel # MONITORED_CHANNEL
        THEN Ignored(task)
      ELSE IF containsMention(ev.text) THEN Ignored(task)
      ELSE IF isThreadReply(ev) THEN [ task EXCEPT !.pc = "admit_fetch" ]
      ELSE ProcessMessageRequest(task)

\* app.message from its first statement to its first await
MessageHandler(task) ==
  LET ev == task.ev
  IN  IF Truthy(ev.bot_id) THEN Ignored(task)
      ELSE IF ev.subtype # "" /\ ev.subtype # "thread_broadcast" THEN Ignored(task)
      ELSE IF ev.bot_profile THEN Ignored(task)
      ELSE IF ev.user = "USLACKBOT" THEN Ignored(task)
      ELSE IF isDMChannel(ev.channel)
        THEN [ task EXCEPT !.pc = "redirect", !.sayText = RedirectText ]
      ELSE IF /\ isProbablyGroupDMOrPrivateChannel(ev.channel)
              /\ MONITORED_CHANNEL # "" /\ ev.channel # MONITORED_CHANNEL
        THEN Ignored(task)
      ELSE IF MONITORED_CHANNEL # "" /\ ev.channel # MONITORED_CHANNEL
        THEN Ignored(task)
      ELSE IF containsMention(ev.text) THEN Ignored(task)
      ELSE IF isThreadReply(ev) THEN [ task EXCEPT !.pc = "admit_fetch" ]
      ELSE Ignored(task)

\* app_mention answering thread replies only in threads that hold bot messages
AppMentionHandler_activeThreadsOnly(task) ==
  IF MONITORED_CHANNEL # "" /\ task.ev.channel # MONITORED_CHANNEL
  THEN Ignored(task)
  ELSE IF isThreadReply(task.ev) /\ ~HasBotMessages(threads[task.ev.thread_ts])
  THEN Ignored(task)
  ELSE ProcessMessageRequest(task)

\* app_mention without the channel filter
AppMentionHandler_anyChannel(task) == ProcessMessageRequest(task)

\* app.event('app_mention') from its first statement to its first await
AppMentionHandler(task) ==
  IF MONITORED_CHANNEL # "" /\ task.ev.channel # MONITORED_CHANNEL
  THEN Ignored(task)
  ELSE ProcessMessageRequest(task)

\* ------------------------------------------------------------------------
\* Initial states
\* ------------------------------------------------------------------------
Configs ==
  { << "C1", TRUE, TRUE >>, << "", TRUE, TRUE >>,
    << "C1", FALSE, TRUE >>, << "C1", TRUE, FALSE >> }

UserEntry(ts, text, blocks) == Entry(ts, "C1", "U1", Null, text, blocks)
ReplyEntry(ts, id) ==
  BotEntry(ts, "C1", AnswerText, CreateMessageWithConversationId(AnswerText, id, 1).blocks)

\* contents of the one thread that exists when the app starts (anchor 1)
InitHistories ==
  { << UserEntry(1, <<"hello">>, <<>>) >>,
    << UserEntry(1, <<"hello">>, <<>>), ReplyEntry(2, IdA) >>,
    << UserEntry(1, <<"hello">>, <<>>),
       UserEntry(2, <<"hello">>, CreateMessageWithConversationId(<<"hello">>, IdA, 1).blocks) >>,
    << UserEntry(1, <<"hello">>, <<>>),
       Entry(2, "C1", "U3", OTHER_BOT_ID, <<"hello">>, <<>>) >> }

NoProbe == [ stage |-> "none" ]

Init ==
  /\ \E c \in Configs :
       /\ MONITORED_CHANNEL = c[1]
       /\ MATT_GPT_BEARER_TOKEN = c[2]
       /\ OPENROUTER_API_KEY = c[3]
  /\ \E h \in InitHistories : threads = (1 :> h) /\ clock = Len(h) + 1
  /\ inbox = {}
  /\ tasks = [ x \in {} |-> 0 ]
  /\ posts = 0
  /\ probe = NoProbe

Set(id, task) == tasks' = [ tasks EXCEPT ![id] = task ]

\* a settled handler is collected before anything else runs
Quiet == \A id \in DOMAIN tasks : tasks[id].pc # "done"

\* the platform dispatches the events of a message as soon as it is posted;
\* where a single posted message is followed, its events may arrive at any time
Dispatched ==
  \A del \in inbox : probe.stage = "posted" /\ del.ev.user # BOT_USER_ID

At(id, pc) ==
  /\ id \in DOMAIN tasks /\ tasks[id].pc = pc
  /\ pc # "done" => Quiet /\ Dispatched

\* processMessageRequest without its try / catch: the failure leaves the handler
Caught_propagates(task, error) ==
  [ task EXCEPT !.pc = "done", !.outcome = "escaped", !.error = error ]

\* entering the catch block of processMessageRequest: the locals declared
\* inside the try block are out of scope, only the caught error is left
Caught(task, error) ==
  [ task EXCEPT !.pc = "apology", !.error = error,
                !.conversationId = Null, !.fetch = "none", !.seen = <<>>,
                !.response = NoResponse, !.embedded = Null, !.payloadThread = 0 ]

\* ------------------------------------------------------------------------
\* Environment: somebody posts a message
\* ------------------------------------------------------------------------
Shape(channel, user, bot_id, bot_profile, subtype, text) ==
  [ channel |-> channel, user |-> user, bot_id |-> bot_id,
    bot_profile |-> bot_profile, subtype |-> subtype, text |-> text ]

PostShapes ==
  { Shape("C1", "U1", Null, FALSE, "", << BotMention, " ", "hello" >>),
    Shape("C1", "U1", Null, FALSE, "", << "hello" >>),
    Shape("C1", "U3", OTHER_BOT_ID, TRUE, "bot_message", << "hello" >>),
    Shape("D1", "U1", Null, FALSE, "", << "hello" >>) }

\* the platform finds a mention of the app in the text
Addresses(text) == \E i \in 1..Len(text) : text[i] = BotMention

\* the events the platform sends to the app for a posted message: a message
\* event always, an app_mention event when the text mentions the app, the
\* message is not in a direct-message conversation and is not the app's own
Events(ev) ==
  { [ path |-> "message", ev |-> ev ] }
  \cup IF Addresses(ev.text) /\ ~isDMChannel(ev.channel) /\ ev.user # BOT_USER_ID
       THEN { [ path |-> "app_mention", ev |-> ev ] } ELSE {}

UserPost(shape, a) ==
  /\ posts < MaxPosts /\ Quiet /\ Dispatched
  /\ Cardinality(DOMAIN tasks) < MaxInFlight
  /\ a # 0 => a \in DOMAIN threads /\ threads[a][1].channel = shape.channel
  /\ LET ev == [ channel |-> shape.channel, user |-> shape.user, ts |-> clock,
                 thread_ts |-> a, text |-> shape.text, bot_id |-> shape.bot_id,
                 bot_profile |-> shape.bot_profile, subtype |-> shape.subtype ]
     IN  /\ threads' = AppendTo(threads, Anchor(ev),
                         Entry(clock, ev.channel, ev.user, ev.bot_id, ev.text, <<>>))
         /\ inbox' = inbox \cup Events(ev)
  /\ clock' = clock + 1
  /\ posts' = posts + 1
  /\ UNCHANGED << config, probe, tasks >>

\* ------------------------------------------------------------------------
\* Handlers
\* ------------------------------------------------------------------------
\* the platform delivers a message event: app.message runs to its first await
DeliverMessage(del) ==
  /\ del \in inbox /\ del.path = "message" /\ Quiet
  /\ inbox' = inbox \ { del }
  /\ tasks' = tasks @@ (TaskId(del) :> MessageHandler(NewTask(del)))
  /\ UNCHANGED << config, probe, threads, clock, posts >>

\* the platform delivers an app_mention event
DeliverAppMention(del) ==
  /\ del \in inbox /\ del.path = "app_mention" /\ Quiet
  /\ inbox' = inbox \ { del }
  /\ tasks' = tasks @@ (TaskId(del) :> AppMentionHandler(NewTask(del)))
  /\ UNCHANGED << config, probe, threads, clock, posts >>

\* app.message: conversations.replies returned; some(msg => msg.bot_id)
AdmitFetchOk(id) ==
  /\ At(id, "admit_fetch")
  /\ LET task == [ tasks[id] EXCEPT !.admit = "ok" ]
     IN  Set(id, Did(IF HasBotMessages(Replies(task.ev.thread_ts))
                 THEN ProcessMessageRequest(task) ELSE Ignored(task),
                  "admit_fetch", TRUE, tasks[id].ev.thread_ts, <<>>))
  /\ UNCHANGED << config, probe, threads, clock, inbox, posts >>

\* app.message: conversations.replies threw; shouldRespond stays false
AdmitFetchFails(id) ==
  /\ At(id, "admit_fetch")
  /\ Set(id, Did(Ignored([ tasks[id] EXCEPT !.admit = "failed" ]),
                  "admit_fetch", FALSE, tasks[id].ev.thread_ts, <<>>))
  /\ UNCHANGED << config, probe, threads, clock, inbox, posts >>

\* the say() of the direct-message branch of app.message
RedirectOk(id) ==
  /\ At(id, "redirect")
  /\ threads' = threads @@ (clock :> << BotEntry(clock, tasks[id].ev.channel, tasks[id].sayText, <<>>) >>)
  /\ clock' = clock + 1
  /\ inbox' = inbox \cup { OwnEvent(clock, tasks[id].ev.channel, 0, tasks[id].sayText) }
  /\ Set(id, Did([ tasks[id] EXCEPT !.pc = "done", !.outcome = "redirected" ],
                  "redirect", TRUE, 0, tasks[id].sayText))
  /\ UNCHANGED << config, probe, posts >>

\* that say() throws: nothing catches it inside the handler
RedirectFails(id) ==
  /\ At(id, "redirect")
  /\ Set(id, Did([ tasks[id] EXCEPT !.pc = "done", !.outcome = "escaped", !.error = PlatformError ],
                  "redirect", FALSE, 0, tasks[id].sayText))
  /\ UNCHANGED << config, probe, threads, clock, inbox, posts >>

\* the say() of the configuration checks
ConfigSayOk(id) ==
  /\ At(id, "config_say")
  /\ threads' = AppendTo(threads, Anchor(tasks[id].ev),
                  BotEntry(clock, tasks[id].ev.channel, tasks[id].sayText, <<>>))
  /\ clock' = clock + 1
  /\ inbox' = inbox \cup { OwnEvent(clock, tasks[id].ev.channel, Anchor(tasks[id].ev),
                                   tasks[id].sayText) }
  /\ Set(id, Did([ tasks[id] EXCEPT !.pc = "done", !.outcome = "config_error" ],
                  "config_say", TRUE, Anchor(tasks[id].ev), tasks[id].sayText))
  /\ UNCHANGED << config, probe, posts >>

ConfigSayFails(id, e) ==
  /\ At(id, "config_say")
  /\ Set(id, Did(Caught(tasks[id], e),
                  "config_say", FALSE, Anchor(tasks[id].ev), tasks[id].sayText))
  /\ UNCHANGED << config, probe, threads, clock, inbox, posts >>

\* a lock per thread: the history is fetched only when no other invocation
\* of the same thread is between its own fetch and its reply
LocateOk_serialised(id) ==
  /\ At(id, "locate")
  /\ \A other \in DOMAIN tasks \ { id } :
       Anchor(tasks[other].ev) = Anchor(tasks[id].ev)
       => tasks[other].pc \notin { "thinking", "ask", "update", "apology" }
  /\ LET messages == Replies(tasks[id].ev.thread_ts)
     IN  Set(id, Did([ tasks[id] EXCEPT !.pc = "thinking", !.fetch = "ok",
                     !.seen = messages,
                     !.conversationId = LocateConversationId(messages) ],
                  "locate", TRUE, tasks[id].ev.thread_ts, <<>>))
  /\ UNCHANGED << config, probe, threads, clock, inbox, posts >>

\* processMessageRequest: conversations.replies returned, the scan ran
LocateOk(id) ==
  /\ At(id, "locate")
  /\ LET messages == Replies(tasks[id].ev.thread_ts)
     IN  Set(id, Did([ tasks[id] EXCEPT !.pc = "thinking", !.fetch = "ok",
                     !.seen = messages,
                     !.conversationId = LocateConversationId(messages) ],
                  "locate", TRUE, tasks[id].ev.thread_ts, <<>>))
  /\ UNCHANGED << config, probe, threads, clock, inbox, posts >>

\* the failed fetch treated as fatal for the turn
LocateFails_aborts(id) ==
  /\ At(id, "locate")
  /\ Set(id, Did([ tasks[id] EXCEPT !.pc = "apology", !.fetch = "failed",
                 !.error = PlatformError, !.seen = threads[tasks[id].ev.thread_ts] ],
                  "locate", FALSE, tasks[id].ev.thread_ts, <<>>))
  /\ UNCHANGED << config, probe, threads, clock, inbox, posts >>

\* conversations.replies threw: logged, conversationId stays null
LocateFails(id) ==
  /\ At(id, "locate")
  /\ Set(id, Did([ tasks[id] EXCEPT !.pc = "thinking", !.fetch = "failed",
                 !.seen = threads[tasks[id].ev.thread_ts] ],
                  "locate", FALSE, tasks[id].ev.thread_ts, <<>>))
  /\ UNCHANGED << config, probe, threads, clock, inbox, posts >>

\* say({ text: "Thinking...", thread_ts: thread_ts || ts }) returned
PostThinkingOk(id) ==
  /\ At(id, "thinking")
  /\ threads' = AppendTo(threads, Anchor(tasks[id].ev),
                  BotEntry(clock, tasks[id].ev.channel, ThinkingText, <<>>))
  /\ clock' = clock + 1
  /\ inbox' = inbox \cup { OwnEvent(clock, tasks[id].ev.channel, Anchor(tasks[id].ev),
                                   ThinkingText) }
  /\ Set(id, Did([ tasks[id] EXCEPT !.pc = "ask", !.thinkingTs = clock, !.attempt = 1 ],
                  "thinking", TRUE, Anchor(tasks[id].ev), ThinkingText))
  /\ UNCHANGED << config, probe, posts >>

\* a failed placeholder post is logged and the turn goes on to the backend
PostThinkingFails_continues(id, e) ==
  /\ At(id, "thinking")
  /\ Set(id, Did([ tasks[id] EXCEPT !.pc = "ask", !.attempt = 1 ],
                  "thinking", FALSE, Anchor(tasks[id].ev), ThinkingText))
  /\ UNCHANGED << config, probe, threads, clock, inbox, posts >>

PostThinkingFails(id, e) ==
  /\ At(id, "thinking")
  /\ Set(id, Did(Caught(tasks[id], e),
                  "thinking", FALSE, Anchor(tasks[id].ev), ThinkingText))
  /\ UNCHANGED << config, probe, threads, clock, inbox, posts >>

\* apiContext of processMessageRequest
ApiContext(task) ==
  [ thread_ts |-> Anchor(task.ev), channel |-> task.ev.channel,
    user_id |-> task.ev.user, conversation_id |-> task.conversationId ]

\* requestPayload of one attempt of callMattGPTWithRetry: message and key
\* always, conversation_id only when the context has one (Null stands for the
\* absent property); no other property of the context is copied into it
RequestPayload(message, context) ==
  [ message            |-> message,
    openrouter_api_key |-> OPENROUTER_API_KEY,
    conversation_id    |-> IF Truthy(context.conversation_id)
                           THEN context.conversation_id ELSE Null ]

\* one attempt of callMattGPTWithRetry returns a 2xx response
AttemptSucceeds(id, resp) ==
  /\ At(id, "ask")
  /\ Set(id, Did([ tasks[id] EXCEPT
        !.requests = Append(@, RequestPayload(tasks[id].cleanedText, ApiContext(tasks[id]))),
        !.response = resp,
        !.embedded = ResponseConversationId(resp.conversation_id, tasks[id].conversationId),
        !.payloadThread =
          CreateMessageWithConversationId(resp.response,
            ResponseConversationId(resp.conversation_id, tasks[id].conversationId),
            Anchor(tasks[id].ev)).thread_ts,
        !.pc = "update" ],
                  "ask", TRUE, 0, tasks[id].cleanedText))
  /\ UNCHANGED << config, probe, threads, clock, inbox, posts >>

\* one attempt fails: rethrow after the last one, otherwise back off and loop
AttemptFails(id, cause) ==
  /\ At(id, "ask")
  /\ LET task == [ tasks[id] EXCEPT
                     !.requests = Append(@, RequestPayload(tasks[id].cleanedText, ApiContext(tasks[id]))),
                     !.causes = Append(@, cause) ]
     IN  Set(id, Did(IF task.attempt = maxRetries
                 THEN Caught(task, RetryError(maxRetries, cause))
                 ELSE [ task EXCEPT !.delays = Append(@, Delay(task.attempt)),
                                    !.attempt = @ + 1 ],
                  "ask", FALSE, 0, tasks[id].cleanedText))
  /\ UNCHANGED << config, probe, threads, clock, inbox, posts >>

\* client.chat.update({ channel, ts: thinkingMsg.ts, ...responsePayload }) returned
UpdateOk(id) ==
  /\ At(id, "update")
  /\ threads' = Edited(threads, Anchor(tasks[id].ev), tasks[id].thinkingTs,
                  CreateMessageWithConversationId(tasks[id].response.response,
                                                  tasks[id].embedded, Anchor(tasks[id].ev)))
  /\ inbox' = inbox \cup { EditEvent(tasks[id].thinkingTs, tasks[id].ev.channel) }
  /\ Set(id, Did([ tasks[id] EXCEPT !.pc = "done", !.outcome = "delivered" ],
                  "update", TRUE, tasks[id].thinkingTs, tasks[id].response.response))
  /\ UNCHANGED << config, probe, clock, posts >>

UpdateFails(id, e) ==
  /\ At(id, "update")
  /\ Set(id, Did(Caught(tasks[id], e),
                  "update", FALSE, tasks[id].thinkingTs, tasks[id].response.response))
  /\ UNCHANGED << config, probe, threads, clock, inbox, posts >>

\* catch block: say({ text: userMessage, thread_ts: thread_ts || ts }) returned
ApologyOk(id) ==
  /\ At(id, "apology")
  /\ threads' = AppendTo(threads, Anchor(tasks[id].ev),
                  BotEntry(clock, tasks[id].ev.channel, UserMessage(tasks[id].error), <<>>))
  /\ clock' = clock + 1
  /\ inbox' = inbox \cup { OwnEvent(clock, tasks[id].ev.channel, Anchor(tasks[id].ev),
                                   UserMessage(tasks[id].error)) }
  /\ Set(id, Did([ tasks[id] EXCEPT !.pc = "done", !.outcome = "apologised" ],
                  "apology", TRUE, Anchor(tasks[id].ev), UserMessage(tasks[id].error)))
  /\ UNCHANGED << config, probe, posts >>

\* the fallback say() without its own try / catch
ApologyFails_propagates(id) ==
  /\ At(id, "apology")
  /\ Set(id, Did([ tasks[id] EXCEPT !.pc = "done", !.outcome = "escaped" ],
                  "apology", FALSE, Anchor(tasks[id].ev), UserMessage(tasks[id].error)))
  /\ UNCHANGED << config, probe, threads, clock, inbox, posts >>

\* the fallback say() threw as well: logged only
ApologyFails(id) ==
  /\ At(id, "apology")
  /\ Set(id, Did([ tasks[id] EXCEPT !.pc = "done", !.outcome = "gave_up" ],
                  "apology", FALSE, Anchor(tasks[id].ev), UserMessage(tasks[id].error)))
  /\ UNCHANGED << config, probe, threads, clock, inbox, posts >>

\* the handler's promise settles and its locals are gone
Return(id) ==
  /\ At(id, "done")
  /\ tasks' = [ x \in DOMAIN tasks \ { id } |-> tasks[x] ]
  /\ UNCHANGED << config, probe, threads, clock, inbox, posts >>

Next ==
  \/ \E shape \in PostShapes, a \in {0} \cup DOMAIN threads : UserPost(shape, a)
  \/ \E del \in inbox : DeliverMessage(del)
  \/ \E del \in inbox : DeliverAppMention(del)
  \/ \E id \in DOMAIN tasks : AdmitFetchOk(id)
  \/ \E id \in DOMAIN tasks : AdmitFetchFails(id)
  \/ \E id \in DOMAIN tasks : RedirectOk(id)
  \/ \E id \in DOMAIN tasks : RedirectFails(id)
  \/ \E id \in DOMAIN tasks : ConfigSayOk(id)
  \/ \E id \in DOMAIN tasks : ConfigSayFails(id, PlatformError)
  \/ \E id \in DOMAIN tasks : LocateOk(id)
  \/ \E id \in DOMAIN tasks : LocateFails(id)
  \/ \E id \in DOMAIN tasks : PostThinkingOk(id)
  \/ \E id \in DOMAIN tasks : PostThinkingFails(id, PlatformError)
  \/ \E id \in DOMAIN tasks, resp \in Responses : AttemptSucceeds(id, resp)
  \/ \E id \in DOMAIN tasks, cause \in Causes : AttemptFails(id, cause)
  \/ \E id \in DOMAIN tasks : UpdateOk(id)
  \/ \E id \in DOMAIN tasks : UpdateFails(id, PlatformError)
  \/ \E id \in DOMAIN tasks : ApologyOk(id)
  \/ \E id \in DOMAIN tasks : ApologyFails(id)
  \/ \E id \in DOMAIN tasks : Return(id)

Spec == Init /\ [][Next]_vars

\* ------------------------------------------------------------------------
\* The codec exercised on its own: encode, store, fetch, decode
\* ------------------------------------------------------------------------
CodecTexts == { <<"answer">>, <<"conv_", "answer">>, <<>> }
CodecIds ==
  { IdA, IdB,
    <<"c", "o", "n", "v", "_">>,
    <<"a", "c", "o", "n", "v", "_", "b">>,
    <<"c", "o", "n", "v", "_", "c", "o", "n", "v", "_">>,
    <<"c", "o", "n", "v">>,
    <<"n", "u", "l", "l">>,
    <<"_", "c", "o", "n", "v", "_", "a", "c", "o", "n", "v", "_">> }
CodecAnchors == { 1, 2 }

\* the application is not handling anything
Idle ==
  /\ MONITORED_CHANNEL = "C1" /\ MATT_GPT_BEARER_TOKEN = TRUE /\ OPENROUTER_API_KEY = TRUE
  /\ threads = (1 :> << UserEntry(1, <<"hello">>, <<>>) >>) /\ clock = 2
  /\ inbox = {} /\ tasks = [ x \in {} |-> 0 ] /\ posts = 0

system == << config, threads, clock, inbox, tasks, posts >>

InitCodec ==
  /\ Idle
  /\ \E text \in CodecTexts, id \in CodecIds, a \in CodecAnchors :
       probe = [ stage |-> "input", text |-> text, id |-> id, threadTs |-> a,
                 message |-> UserEntry(0, <<>>, <<>>), decoded |-> Null ]

\* createMessageWithConversationId, then the platform stores the message
Encode ==
  /\ probe.stage = "input"
  /\ LET payload == CreateMessageWithConversationId(probe.text, probe.id, probe.threadTs)
     IN  probe' = [ probe EXCEPT !.stage = "sent",
                      !.message = BotEntry(probe.threadTs + 1, "C1", payload.text, payload.blocks) ]
  /\ UNCHANGED system

\* the message comes back from the platform and extractConversationId reads it
Decode ==
  /\ probe.stage = "sent"
  /\ probe' = [ probe EXCEPT !.stage = "decoded",
                             !.decoded = ExtractConversationId(probe.message) ]
  /\ UNCHANGED system

NextCodec == Encode \/ Decode

SpecCodec == InitCodec /\ [][NextCodec]_vars

\* ------------------------------------------------------------------------
\* The history scan exercised on its own
\* ------------------------------------------------------------------------
IdBlocks(id) == CreateMessageWithConversationId(AnswerText, id, 1).blocks

\* kinds of messages a fetched thread history may hold
MessageKinds ==
  { Entry(0, "C1", "U1", Null, <<"hello">>, <<>>),
    Entry(0, "C1", "U1", Null, <<"hello">>, IdBlocks(IdA)),
    BotEntry(0, "C1", ThinkingText, <<>>),
    BotEntry(0, "C1", AnswerText, IdBlocks(IdA)),
    BotEntry(0, "C1", AnswerText, IdBlocks(IdB)),
    Entry(0, "C1", "U3", OTHER_BOT_ID, <<"hello">>, IdBlocks(<<>>)) }

Stamp(h) == [ i \in 1..Len(h) |-> [ h[i] EXCEPT !.ts = i ] ]

Histories == UNION { { Stamp(h) : h \in [ 1..n -> MessageKinds ] } : n \in 1..MaxHist }

InitLocate ==
  /\ Idle
  /\ \E h \in Histories :
       probe = [ stage |-> "input", messages |-> h, conversationId |-> Null ]

\* the loop over threadHistory.messages.reverse() of processMessageRequest
Scan ==
  /\ probe.stage = "input"
  /\ probe' = [ probe EXCEPT !.stage = "scanned",
                             !.conversationId = LocateConversationId(probe.messages) ]
  /\ UNCHANGED system

NextLocate == Scan

SpecLocate == InitLocate /\ [][NextLocate]_vars

\* ------------------------------------------------------------------------
\* The cleaning of the text exercised on its own: what processMessageRequest
\* tests for the aside marker and what it hands to the backend call
\* ------------------------------------------------------------------------
CleanTokens == { BotMention, "<@U09BR46BEV8|matt>", " ", "hello", "Side Note" }

CleanTexts == UNION { [ 1..n -> CleanTokens ] : n \in 0..MaxText }

InitClean ==
  /\ Idle
  /\ \E text \in CleanTexts :
       probe = [ stage |-> "input", text |-> text, cleaned |-> <<>>,
                 aside |-> FALSE, message |-> <<>> ]

\* processMessageRequest up to the aside test, and the message of the payload
Clean ==
  /\ probe.stage = "input"
  /\ LET cleanedText == cleanMessageText(probe.text)
     IN  probe' = [ probe EXCEPT
           !.stage = "cleaned",
           !.cleaned = cleanedText,
           !.aside = IsSideNote(cleanedText),
           !.message = RequestPayload(cleanedText,
                         [ conversation_id |-> Null ]).message ]
  /\ UNCHANGED system

NextClean == Clean

SpecClean == InitClean /\ [][NextClean]_vars

\* ------------------------------------------------------------------------
\* The history fetch on a long thread: thread 1 holds about fetchLimit
\* messages of a person and one reply of the app that carries an id
\* ------------------------------------------------------------------------
LongThread(n, p) ==
  [ i \in 1..n |-> IF i = p THEN ReplyEntry(i, IdA) ELSE UserEntry(i, << "hello" >>, <<>>) ]

InitWindow ==
  /\ MONITORED_CHANNEL = "C1" /\ MATT_GPT_BEARER_TOKEN = TRUE /\ OPENROUTER_API_KEY = TRUE
  /\ \E n \in (fetchLimit - 1)..(fetchLimit + 2) : \E p \in 2..n :
       /\ threads = (1 :> LongThread(n, p))
       /\ clock = n + 1
  /\ inbox = {} /\ tasks = [ x \in {} |-> 0 ] /\ posts = 0
  /\ probe = [ stage |-> "input", active |-> FALSE, conversationId |-> Null ]

\* the two uses of the fetched history: some(msg => msg.bot_id) in app.message
\* and the scan of processMessageRequest
FetchHistory ==
  /\ probe.stage = "input"
  /\ probe' = [ stage |-> "fetched",
                active |-> HasBotMessages(Replies(1)),
                conversationId |-> LocateConversationId(Replies(1)) ]
  /\ UNCHANGED system

NextWindow == FetchHistory

SpecWindow == InitWindow /\ [][NextWindow]_vars

\* ------------------------------------------------------------------------
\* Admission exercised on one posted message: any author, text, channel,
\* position and configuration
\* ------------------------------------------------------------------------
Channels == { "C1", "C2", "G1", "D1" }

AdmissionConfigs == Configs \cup { << "G1", TRUE, TRUE >> }

\* author markers of a message: user, bot_id, bot_profile, subtype
Author(user, bot_id, bot_profile, subtype) ==
  [ user |-> user, bot_id |-> bot_id, bot_profile |-> bot_profile, subtype |-> subtype ]

Authors ==
  { Author("U1", Null, FALSE, ""),
    Author("U1", Null, FALSE, "thread_broadcast"),
    Author("U1", Null, FALSE, "channel_join"),
    Author("U3", OTHER_BOT_ID, TRUE, "bot_message"),
    Author("U3", OTHER_BOT_ID, FALSE, ""),
    Author("U3", Null, TRUE, ""),
    Author("USLACKBOT", Null, FALSE, "") }

AdmissionTexts ==
  { << "hello" >>,
    << BotMention, " ", "hello" >>,
    << "hello", " ", BotMention >>,
    << "side note", ":", " ", "ignore", " ", "me" >>,
    << BotMention, " ", "SIDENOTE", " ", "hello" >>,
    << "<@U2>", " ", "Side Note", " ", "hello" >>,
    << BotMention, " ", "side-note" >> }

\* the thread that exists before the message is posted, in channel c
HistoriesIn(c) ==
  { [ i \in 1..Len(h) |-> [ h[i] EXCEPT !.channel = c ] ] : h \in InitHistories }

\* somebody has just posted a message and the platform is about to send its events
InitAdmission ==
  /\ \E c \in AdmissionConfigs :
       /\ MONITORED_CHANNEL = c[1]
       /\ MATT_GPT_BEARER_TOKEN = c[2]
       /\ OPENROUTER_API_KEY = c[3]
  /\ \E channel \in Channels, author \in Authors, text \in AdmissionTexts :
     \E h \in HistoriesIn(channel) :
     \E a \in { 0, 1, Len(h) + 1 } :
       LET ts == Len(h) + 1
           ev == [ channel |-> channel, user |-> author.user, ts |-> ts,
                   thread_ts |-> a, text |-> text, bot_id |-> author.bot_id,
                   bot_profile |-> author.bot_profile, subtype |-> author.subtype ]
       IN  /\ threads = AppendTo((1 :> h), Anchor(ev),
                           Entry(ts, channel, ev.user, ev.bot_id, text, <<>>))
           /\ clock = ts + 1
           /\ inbox = Events(ev)
           /\ probe = [ stage |-> "posted", ev |-> ev ]
  /\ tasks = [ x \in {} |-> 0 ]
  /\ posts = 1

NextAdmission ==
  \/ \E del \in inbox : DeliverMessage(del)
  \/ \E del \in inbox : DeliverAppMention(del)
  \/ \E id \in DOMAIN tasks : AdmitFetchOk(id)
  \/ \E id \in DOMAIN tasks : AdmitFetchFails(id)
  \/ \E id \in DOMAIN tasks : RedirectOk(id)
  \/ \E id \in DOMAIN tasks : RedirectFails(id)
  \/ \E id \in DOMAIN tasks : ConfigSayOk(id)
  \/ \E id \in DOMAIN tasks, e \in PlatformErrors : ConfigSayFails(id, e)
  \/ \E id \in DOMAIN tasks : LocateOk(id)
  \/ \E id \in DOMAIN tasks : LocateFails(id)
  \/ \E id \in DOMAIN tasks : PostThinkingOk(id)
  \/ \E id \in DOMAIN tasks, e \in PlatformErrors : PostThinkingFails(id, e)
  \/ \E id \in DOMAIN tasks, resp \in Responses : AttemptSucceeds(id, resp)
  \/ \E id \in DOMAIN tasks, cause \in Causes : AttemptFails(id, cause)
  \/ \E id \in DOMAIN tasks : UpdateOk(id)
  \/ \E id \in DOMAIN tasks, e \in PlatformErrors : UpdateFails(id, e)
  \/ \E id \in DOMAIN tasks : ApologyOk(id)
  \/ \E id \in DOMAIN tasks : ApologyFails(id)
  \/ \E id \in DOMAIN tasks : Return(id)

SpecAdmission == InitAdmission /\ [][NextAdmission]_vars

\* ------------------------------------------------------------------------
\* One turn under fair scheduling: a person posts a plain or an addressed
\* message; every awaited call settles and the event loop runs every
\* continuation that is ready
\* ------------------------------------------------------------------------
TurnTexts == { << "hello" >>, << BotMention, " ", "hello" >> }

InitTurn ==
  /\ InitAdmission
  /\ probe.ev.user = "U1" /\ probe.ev.subtype = ""
  /\ probe.ev.text \in TurnTexts

SpecTurn == InitTurn /\ [][NextAdmission]_vars /\ WF_vars(NextAdmission)

\* ------------------------------------------------------------------------
\* One addressed message in the monitored channel and a backend that fails
\* in several ways
\* ------------------------------------------------------------------------
BackendCauses ==
  Causes \cup { << "Request", "failed:", "ratelimited" >>,
                << "timeout", "after", "ratelimited" >> }

InitBackend ==
  /\ InitAdmission
  /\ MONITORED_CHANNEL = "C1" /\ MATT_GPT_BEARER_TOKEN /\ OPENROUTER_API_KEY
  /\ probe.ev.channel = "C1" /\ probe.ev.user = "U1" /\ probe.ev.subtype = ""
  /\ probe.ev.text = << BotMention, " ", "hello" >>

NextBackend ==
  \/ \E del \in inbox : DeliverMessage(del)
  \/ \E del \in inbox : DeliverAppMention(del)
  \/ \E id \in DOMAIN tasks : LocateOk(id)
  \/ \E id \in DOMAIN tasks : LocateFails(id)
  \/ \E id \in DOMAIN tasks : PostThinkingOk(id)
  \/ \E id \in DOMAIN tasks : PostThinkingFails(id, PlatformError)
  \/ \E id \in DOMAIN tasks, resp \in Responses : AttemptSucceeds(id, resp)
  \/ \E id \in DOMAIN tasks, cause \in BackendCauses : AttemptFails(id, cause)
  \/ \E id \in DOMAIN tasks : UpdateOk(id)
  \/ \E id \in DOMAIN tasks : UpdateFails(id, PlatformError)
  \/ \E id \in DOMAIN tasks : ApologyOk(id)
  \/ \E id \in DOMAIN tasks : ApologyFails(id)
  \/ \E id \in DOMAIN tasks : Return(id)

SpecBackend == InitBackend /\ [][NextBackend]_vars

\* ------------------------------------------------------------------------
\* Two messages posted one after the other by a person, before the app has
\* handled either: the first is a reply in thread 1, the second a reply in
\* thread 1, a reply in a second thread, or a new root message; their
\* handlers run interleaved on the event loop
\* ------------------------------------------------------------------------
RaceConfigs == { << "C1", TRUE, TRUE >> }

\* the backend answers with a conversation id; an attempt fails by timeout
RaceResponses == { r \in Responses : r.conversation_id # Null }
RaceCauses == { << "timeout", "of", "30000ms", "exceeded" >> }

InitRace ==
  /\ \E c \in RaceConfigs :
       /\ MONITORED_CHANNEL = c[1]
       /\ MATT_GPT_BEARER_TOKEN = c[2]
       /\ OPENROUTER_API_KEY = c[3]
  /\ \E h \in InitHistories, t1 \in TurnTexts, t2 \in TurnTexts :
     \E a2 \in { 0, 1, Len(h) + 1 } :
       LET other == Len(h) + 1
           ev1 == [ channel |-> "C1", user |-> "U1", ts |-> other + 1, thread_ts |-> 1,
                    text |-> t1, bot_id |-> Null, bot_profile |-> FALSE, subtype |-> "" ]
           ev2 == [ channel |-> "C1", user |-> "U1", ts |-> other + 2, thread_ts |-> a2,
                    text |-> t2, bot_id |-> Null, bot_profile |-> FALSE, subtype |-> "" ]
           th0 == (1 :> h) @@ (other :> << UserEntry(other, << "hello" >>, <<>>) >>)
           th1 == AppendTo(th0, Anchor(ev1), Entry(ev1.ts, "C1", "U1", Null, t1, <<>>))
       IN  /\ threads = AppendTo(th1, Anchor(ev2), Entry(ev2.ts, "C1", "U1", Null, t2, <<>>))
           /\ clock = ev2.ts + 1
           /\ inbox = Events(ev1) \cup Events(ev2)
           /\ probe = [ stage |-> "posted", ev |-> ev1 ]
  /\ tasks = [ x \in {} |-> 0 ]
  /\ posts = 2

NextRace ==
  \/ \E del \in inbox : DeliverMessage(del)
  \/ \E del \in inbox : DeliverAppMention(del)
  \/ \E id \in DOMAIN tasks : AdmitFetchOk(id)
  \/ \E id \in DOMAIN tasks : AdmitFetchFails(id)
  \/ \E id \in DOMAIN tasks : LocateOk(id)
  \/ \E id \in DOMAIN tasks : LocateFails(id)
  \/ \E id \in DOMAIN tasks : PostThinkingOk(id)
  \/ \E id \in DOMAIN tasks : PostThinkingFails(id, PlatformError)
  \/ \E id \in DOMAIN tasks, resp \in RaceResponses : AttemptSucceeds(id, resp)
  \/ \E id \in DOMAIN tasks, cause \in RaceCauses : AttemptFails(id, cause)
  \/ \E id \in DOMAIN tasks : UpdateOk(id)
  \/ \E id \in DOMAIN tasks : UpdateFails(id, PlatformError)
  \/ \E id \in DOMAIN tasks : ApologyOk(id)
  \/ \E id \in DOMAIN tasks : ApologyFails(id)
  \/ \E id \in DOMAIN tasks : Return(id)

SpecRace == InitRace /\ [][NextRace]_vars

\* ------------------------------------------------------------------------
\* Properties
\* ------------------------------------------------------------------------
Delivered(id) == tasks[id].pc = "done" /\ tasks[id].outcome = "delivered"

\* the stored messages with timestamp ts in thread a
EntriesAt(a, ts) == { i \in 1..Len(threads[a]) : threads[a][i].ts = ts }

\* the message a finished turn wrote over its placeholder
FinalReplyOf(id) ==
  threads[Anchor(tasks[id].ev)][CHOOSE i \in EntriesAt(Anchor(tasks[id].ev), tasks[id].thinkingTs) : TRUE]

ConvBlocks(m) ==
  { i \in 1..Len(m.blocks) :
      Truthy(m.blocks[i].block_id) /\ StartsWith(m.blocks[i].block_id, CONV) }

\* the id of the most recent bot-authored message of h that embeds one
MostRecentBotId(h) ==
  LET hits == { i \in 1..Len(h) :
                  Truthy(h[i].bot_id) /\ Truthy(ExtractConversationId(h[i])) }
  IN  IF hits = {} THEN Null
      ELSE ExtractConversationId(h[CHOOSE i \in hits : \A j \in hits : j <= i])

\* the id a reply must embed when the thread holds id and the backend sent respId
Expected(id, respId) == IF respId \notin { Null, <<>>, id } THEN respId ELSE id

\* C1: every final reply written over a placeholder carries exactly one block
\* whose block_id is 'conv_' followed by a real conversation id (never the
\* text form of an absent id)
C1_ReplyCarriesOneRealId ==
  \A id \in DOMAIN tasks : Delivered(id) =>
    /\ Cardinality(ConvBlocks(FinalReplyOf(id))) = 1
    /\ \E c \in BackendIds : FinalReplyOf(id).blocks[1].block_id = CONV \o c

\* the replies of this app in history h that embed a real conversation id
RealReplies(h) ==
  { i \in 1..Len(h) :
      h[i].bot_id = OWN_BOT_ID /\ ExtractConversationId(h[i]) \in BackendIds }

\* C2: continuity over a whole thread: all final replies of one thread that
\* embed a conversation id embed the same one
C2_ThreadContinuity ==
  \A a \in DOMAIN threads : \A i, j \in RealReplies(threads[a]) :
    ExtractConversationId(threads[a][i]) = ExtractConversationId(threads[a][j])

\* C3 as stated: whenever the thread of an answered thread reply held a bot
\* message embedding I when the turn looked for it, the reply embeds I, or the
\* backend's id when the backend sent a different one
C3_PriorIdEmbedded ==
  \A id \in DOMAIN tasks :
    ( /\ Delivered(id) /\ isThreadReply(tasks[id].ev)
      /\ tasks[id].fetch # "none" /\ MostRecentBotId(tasks[id].seen) # Null )
    => FinalReplyOf(id).blocks[1].block_id =
         CONV \o Expected(MostRecentBotId(tasks[id].seen), tasks[id].response.conversation_id)

\* C3 amended: when the history fetch of conversation location succeeded and
\* the most recent id-bearing bot message of the fetched history embeds I, the
\* reply embeds I, or the backend's id when the backend sent a different one
C3_LocatedIdEmbedded ==
  \A id \in DOMAIN tasks :
    ( /\ Delivered(id) /\ isThreadReply(tasks[id].ev)
      /\ tasks[id].fetch = "ok" /\ MostRecentBotId(tasks[id].seen) # Null )
    => FinalReplyOf(id).blocks[1].block_id =
         CONV \o Expected(MostRecentBotId(tasks[id].seen), tasks[id].response.conversation_id)

C3_Witness ==
  \E id \in DOMAIN tasks :
    /\ Delivered(id) /\ isThreadReply(tasks[id].ev) /\ tasks[id].fetch = "ok"
    /\ MostRecentBotId(tasks[id].seen) = IdA
    /\ tasks[id].response.conversation_id = Null
    /\ FinalReplyOf(id).blocks[1].block_id = CONV \o IdA

\* every id embedded in a stored message other than the reply of turn id
EmbeddedElsewhere(id) ==
  UNION { { ExtractConversationId(threads[a][i]) : i \in 1..Len(threads[a]) } :
            a \in DOMAIN threads }
  \ { ExtractConversationId(FinalReplyOf(id)) }

\* C4: with no id from the backend and none located the reply embeds a newly
\* minted id that no other message embeds; no id is minted when one was located
C4_FreshIdMinted ==
  \A id \in DOMAIN tasks : Delivered(id) =>
    /\ ( ~Truthy(tasks[id].response.conversation_id) /\ ~Truthy(tasks[id].conversationId) )
       => ( /\ Truthy(tasks[id].embedded)
            /\ FinalReplyOf(id).blocks[1].block_id = CONV \o tasks[id].embedded
            /\ tasks[id].embedded \notin EmbeddedElsewhere(id) )
    /\ Truthy(tasks[id].conversationId)
       => tasks[id].embedded \in { tasks[id].conversationId, tasks[id].response.conversation_id }

\* C5: decoding the stored form of createMessageWithConversationId(text, I, anchor)
\* yields exactly I, also when I contains 'conv_'
C5_RoundTrip == probe.stage = "decoded" => probe.decoded = probe.id

C5_Witness ==
  /\ probe.stage = "decoded"
  /\ IndexOf(probe.id, CONV) # 0
  /\ probe.decoded = probe.id

\* C6: the scan returns the id of the most recent bot-authored message that
\* embeds one; messages of users and bot messages without an id are skipped
C6_MostRecentBotId ==
  probe.stage = "scanned" => probe.conversationId = MostRecentBotId(probe.messages)

C6_Witness ==
  /\ probe.stage = "scanned" /\ Len(probe.messages) = 4
  /\ probe.messages[1].bot_id = OWN_BOT_ID /\ probe.messages[1].blocks = IdBlocks(IdA)
  /\ probe.messages[2].bot_id = OWN_BOT_ID /\ probe.messages[2].blocks = IdBlocks(IdB)
  /\ probe.messages[3].bot_id = OWN_BOT_ID /\ probe.messages[3].blocks = <<>>
  /\ probe.messages[4].bot_id = Null /\ probe.messages[4].blocks = IdBlocks(IdA)
  /\ probe.conversationId = IdB

\* C7: when the thread holds no bot-authored message, conversation location
\* yields null and the turn goes on as a new conversation
C7_NoBotMessageNoId ==
  \A id \in DOMAIN tasks :
    ( tasks[id].fetch # "none" /\ ~HasBotMessages(tasks[id].seen) )
    => /\ tasks[id].conversationId = Null
       /\ tasks[id].pc \in { "thinking", "ask", "update", "done" }
       /\ \A i \in 1..Len(tasks[id].requests) : tasks[id].requests[i].conversation_id = Null

C7_Witness ==
  \E id \in DOMAIN tasks :
    /\ tasks[id].fetch = "ok" /\ ~HasBotMessages(tasks[id].seen)
    /\ \E i \in 1..Len(tasks[id].seen) : tasks[id].seen[i].blocks # <<>>
    /\ tasks[id].conversationId = Null
    /\ Len(tasks[id].requests) >= 1

\* C8: in every terminal state of a turn that posted a placeholder, the
\* placeholder message was edited or deleted: its text is no longer "Thinking..."
C8_PlaceholderResolved ==
  \A id \in DOMAIN tasks :
    ( tasks[id].pc = "done" /\ tasks[id].thinkingTs # 0 )
    => \A i \in EntriesAt(Anchor(tasks[id].ev), tasks[id].thinkingTs) :
         threads[Anchor(tasks[id].ev)][i].text # ThinkingText

\* C9: when attempt k succeeds after k-1 failures, the call returns after
\* exactly k requests and k-1 waits, the wait after attempt i being 2^i seconds
C9_RetryEventualSuccess ==
  \A id \in DOMAIN tasks : tasks[id].response # NoResponse =>
    LET k == Len(tasks[id].requests)
    IN  /\ k \in 1..maxRetries
        /\ tasks[id].attempt = k
        /\ Len(tasks[id].causes) = k - 1
        /\ tasks[id].response \in Responses
        /\ Len(tasks[id].delays) = k - 1
        /\ \A i \in 1..(k - 1) : tasks[id].delays[i] = Pow2(i) * 1000

C9_Witness ==
  \E id \in DOMAIN tasks :
    /\ tasks[id].response # NoResponse
    /\ Len(tasks[id].requests) = 3
    /\ tasks[id].delays = << 2000, 4000 >>

\* C10: when all attempts fail, exactly maxRetries requests were issued with a
\* wait between attempts only, and the failure raised names the number of
\* attempts and the cause of the last failed attempt
C10_RetryExhaustion ==
  \A id \in DOMAIN tasks : Len(tasks[id].causes) = maxRetries =>
    /\ Len(tasks[id].requests) = maxRetries
    /\ Len(tasks[id].delays) = maxRetries - 1
    /\ tasks[id].response = NoResponse
    /\ tasks[id].pc \in { "apology", "done" }
    /\ SubSeq(tasks[id].error, 1, 6) =
         << "Matt-GPT", "API", "failed", "after", ToString(Len(tasks[id].requests)), "attempts:" >>
    /\ SubSeq(tasks[id].error, 7, Len(tasks[id].error)) = tasks[id].causes[maxRetries]

C10_Witness ==
  \E id \in DOMAIN tasks :
    /\ Len(tasks[id].causes) = maxRetries
    /\ tasks[id].causes[1] # tasks[id].causes[maxRetries]
    /\ tasks[id].pc = "apology"

\* C11: every request sent to the backend contains the thread anchor, the
\* channel and the author of the turn, and contains a conversation id exactly
\* when an id was located for the turn (none on a first turn)
C11_RequestCarriesContext ==
  \A id \in DOMAIN tasks : \A i \in 1..Len(tasks[id].requests) :
    /\ { "thread_ts", "channel", "user_id" } \subseteq DOMAIN tasks[id].requests[i]
    /\ tasks[id].error = Null =>
         ( Truthy(tasks[id].requests[i].conversation_id) <=> Truthy(tasks[id].conversationId) )
    /\ ~isThreadReply(tasks[id].ev) => tasks[id].requests[i].conversation_id = Null

\* C12: a failed history fetch of conversation location does not end the
\* turn: no id is located, the placeholder is posted next and every request
\* to the backend goes out without a conversation id
C12_LocationFailureAbsorbed ==
  \A id \in DOMAIN tasks : tasks[id].fetch = "failed" =>
    /\ tasks[id].conversationId = Null
    /\ tasks[id].pc \in { "thinking", "ask", "update", "done" }
    /\ tasks[id].pc # "thinking" => tasks[id].thinkingTs # 0
    /\ tasks[id].pc \in { "update", "done" } => Len(tasks[id].requests) >= 1
    /\ \A i \in 1..Len(tasks[id].requests) : tasks[id].requests[i].conversation_id = Null

C12_Witness ==
  \E id \in DOMAIN tasks :
    /\ tasks[id].fetch = "failed"
    /\ MostRecentBotId(tasks[id].seen) = IdA
    /\ tasks[id].thinkingTs # 0
    /\ Len(tasks[id].requests) >= 1
    /\ tasks[id].requests[1].conversation_id = Null

\* a handler invocation that never got past admission: no history was
\* fetched for it, nothing was posted, the backend was not called
Untouched(task) ==
  /\ task.admit = "none" /\ task.fetch = "none" /\ task.sayText = <<>>
  /\ task.thinkingTs = 0 /\ task.requests = <<>>

PostedSince(ev) ==
  UNION { { threads[a][i] : i \in { j \in 1..Len(threads[a]) :
                                     /\ threads[a][j].bot_id = OWN_BOT_ID
                                     /\ threads[a][j].ts > ev.ts } } :
          a \in DOMAIN threads }

\* C14: with a monitored channel configured, a message of a human that comes
\* from a 1:1 direct conversation or from a group direct conversation ends in
\* a redirect: exactly one pointer message naming the monitored channel is
\* posted and the backend is not contacted
C14_DirectContextsRedirected ==
  \A id \in DOMAIN tasks :
    ( /\ tasks[id].path = "message" /\ ~Automated(tasks[id].ev)
      /\ MONITORED_CHANNEL # "" /\ tasks[id].ev.channel # MONITORED_CHANNEL
      /\ \/ isDMChannel(tasks[id].ev.channel)
         \/ isProbablyGroupDMOrPrivateChannel(tasks[id].ev.channel)
      /\ tasks[id].pc = "done" )
    => /\ tasks[id].outcome = "redirected"
       /\ tasks[id].requests = <<>>
       /\ Cardinality(PostedSince(tasks[id].ev)) = 1
       /\ \A m \in PostedSince(tasks[id].ev) :
            m.text = RedirectText /\ Includes(m.text, MONITORED_CHANNEL)

\* C15: with a monitored channel configured, an event from any other channel
\* gets no placeholder and no backend call, on the message path and on the
\* mention path alike
C15_OtherChannelsUnanswered ==
  /\ \A id \in DOMAIN tasks :
       ( MONITORED_CHANNEL # "" /\ tasks[id].ev.channel # MONITORED_CHANNEL )
       => /\ tasks[id].thinkingTs = 0 /\ tasks[id].requests = <<>>
          /\ tasks[id].fetch = "none"
          /\ tasks[id].pc \in { "done", "redirect" }
  /\ ( /\ probe.stage = "posted"
       /\ MONITORED_CHANNEL # "" /\ probe.ev.channel # MONITORED_CHANNEL )
     => \A m \in PostedSince(probe.ev) : m.text = RedirectText

C15_Witness ==
  \E id \in DOMAIN tasks :
    /\ tasks[id].path = "app_mention" /\ ~Automated(tasks[id].ev)
    /\ MONITORED_CHANNEL = "C1" /\ tasks[id].ev.channel = "C2"
    /\ isThreadReply(tasks[id].ev) /\ HasBotMessages(threads[tasks[id].ev.thread_ts])
    /\ MATT_GPT_BEARER_TOKEN /\ OPENROUTER_API_KEY
    /\ tasks[id].outcome = "ignored"

\* where the handler of an event stands at its first await, or how it ended
Admission(path, ev) ==
  LET task == NewTask([ path |-> path, ev |-> ev ])
      first == IF path = "message" THEN MessageHandler(task) ELSE AppMentionHandler(task)
  IN  << first.pc, first.outcome >>

AsideMarkers == { "side note", "Side Note", "sidenote", "SIDENOTE", "side-note", "Side-Note" }

\* the text begins with an aside marker once a leading mention token and the
\* blanks after it are set aside
BeginsWithAside(text) ==
  LET rest == TrimLeft(IF text # <<>> /\ Head(text) \in MentionTokens THEN Tail(text) ELSE text)
  IN  rest # <<>> /\ Head(rest) \in AsideMarkers

\* C17 as stated: a message of a human whose text begins with an aside marker
\* is ignored on both paths: no placeholder, no backend call and no message
\* emitted at all
C17_AsidesIgnored ==
  \A id \in DOMAIN tasks :
    ( ~Automated(tasks[id].ev) /\ BeginsWithAside(tasks[id].ev.text) )
    => /\ tasks[id].thinkingTs = 0 /\ tasks[id].requests = <<>>
       /\ tasks[id].sayText = <<>>
       /\ PostedSince(tasks[id].ev) = {}

\* C17 amended: such a message gets no placeholder and no backend call on
\* either path, and no message is emitted for it except the pointer message
\* when it arrived from a 1:1 direct conversation
C17_AsidesUnanswered ==
  \A id \in DOMAIN tasks :
    ( ~Automated(tasks[id].ev) /\ BeginsWithAside(tasks[id].ev.text) )
    => /\ tasks[id].thinkingTs = 0 /\ tasks[id].requests = <<>>
       /\ tasks[id].pc \in { "done", "admit_fetch", "redirect" }
       /\ IF isDMChannel(tasks[id].ev.channel)
          THEN \A m \in PostedSince(tasks[id].ev) : m.text = RedirectText
          ELSE tasks[id].sayText = <<>> /\ PostedSince(tasks[id].ev) = {}

C17_Witness ==
  \E id \in DOMAIN tasks :
    /\ tasks[id].path = "app_mention" /\ ~Automated(tasks[id].ev)
    /\ tasks[id].ev.text = << BotMention, " ", "SIDENOTE", " ", "hello" >>
    /\ tasks[id].ev.channel = MONITORED_CHANNEL
    /\ MATT_GPT_BEARER_TOKEN /\ OPENROUTER_API_KEY
    /\ tasks[id].pc = "done" /\ tasks[id].outcome = "skipped"

\* the posted message is a message of a human that mentions the app and
\* reaches the app as a message event and as an app_mention event
Addressed ==
  /\ probe.stage = "posted" /\ ~Automated(probe.ev)
  /\ Addresses(probe.ev.text) /\ ~isDMChannel(probe.ev.channel)

\* placeholders posted since the message of ev, edited or not
PlaceholdersSince(ev) ==
  { m \in PostedSince(ev) : m.text = ThinkingText \/ m.blocks # <<>> }

\* the mention path admits the event: channel, text and configuration allow a turn
MentionAdmits(ev) ==
  /\ MONITORED_CHANNEL = "" \/ ev.channel = MONITORED_CHANNEL
  /\ ~BeginsWithAside(ev.text)
  /\ MATT_GPT_BEARER_TOKEN /\ OPENROUTER_API_KEY

BotAuthoredBefore(ev) ==
  /\ ev.thread_ts \in DOMAIN threads
  /\ \E i \in 1..Len(threads[ev.thread_ts]) :
       threads[ev.thread_ts][i].ts < ev.ts /\ threads[ev.thread_ts][i].bot_id # Null

\* a reply of a human in a thread, without a mention, in the monitored
\* channel, not an aside, delivered on the message path
PlainThreadReply(task) ==
  /\ task.path = "message" /\ ~Automated(task.ev)
  /\ isThreadReply(task.ev) /\ ~Addresses(task.ev.text)
  /\ MONITORED_CHANNEL # "" /\ task.ev.channel = MONITORED_CHANNEL
  /\ ~BeginsWithAside(task.ev.text)

\* the handler went on to answer: a placeholder, or the notice of a missing key
Answering(task) ==
  /\ task.outcome \notin { "ignored", "skipped" }
  /\ task.pc \in { "config_say", "locate", "thinking", "ask", "update", "apology", "done" }
  /\ ( MATT_GPT_BEARER_TOKEN /\ OPENROUTER_API_KEY )
     => task.pc # "config_say" /\ task.outcome # "config_error"

\* C19 as stated: such a reply is answered whenever its thread holds a prior
\* bot-authored message
C19_ActiveThreadAnswered ==
  \A id \in DOMAIN tasks :
    ( /\ PlainThreadReply(tasks[id]) /\ BotAuthoredBefore(tasks[id].ev)
      /\ tasks[id].pc # "admit_fetch" )
    => Answering(tasks[id])

\* C19 amended: such a reply is answered whenever the history fetch of the
\* message handler succeeds and the thread holds a prior bot-authored
\* message; when that fetch fails the reply is ignored
C19_ActiveThreadAnsweredOnFetch ==
  \A id \in DOMAIN tasks :
    ( /\ PlainThreadReply(tasks[id]) /\ BotAuthoredBefore(tasks[id].ev)
      /\ tasks[id].pc # "admit_fetch" )
    => /\ tasks[id].admit = "ok" => Answering(tasks[id])
       /\ tasks[id].admit = "failed" =>
            /\ tasks[id].pc = "done" /\ tasks[id].outcome = "ignored"
            /\ tasks[id].thinkingTs = 0 /\ tasks[id].requests = <<>>

C19_Witness ==
  \E id \in DOMAIN tasks :
    /\ PlainThreadReply(tasks[id]) /\ tasks[id].admit = "ok"
    /\ BotAuthoredBefore(tasks[id].ev)
    /\ \A i \in 1..2 : threads[tasks[id].ev.thread_ts][i].bot_id # OWN_BOT_ID
    /\ tasks[id].thinkingTs # 0 /\ Len(tasks[id].requests) >= 1

\* a message of a human on the message path that does not mention the app
\* and is either at root level or a reply in a thread without bot messages
Unaddressed(task) ==
  /\ task.path = "message" /\ ~Automated(task.ev) /\ ~Addresses(task.ev.text)
  /\ ~isThreadReply(task.ev) \/ ~BotAuthoredBefore(task.ev)

CallsAt(task, step) == { i \in 1..Len(task.calls) : task.calls[i].step = step }

\* an app_mention invocation for an event of the monitored channel, or of any
\* channel when none is configured
MentionInChannel(task) ==
  /\ task.path = "app_mention"
  /\ MONITORED_CHANNEL = "" \/ task.ev.channel = MONITORED_CHANNEL

\* C21 as stated: every app_mention event of the monitored channel is
\* answered whatever the thread state: its handler always reaches the
\* placeholder post and the backend call
C21_MentionAlwaysAnswered ==
  \A id \in DOMAIN tasks :
    ( MentionInChannel(tasks[id]) /\ tasks[id].pc = "done" )
    => /\ CallsAt(tasks[id], "thinking") # {}
       /\ CallsAt(tasks[id], "ask") # {}

\* C21 amended: whatever the thread state, the handler of such an event
\* reaches the placeholder post unless the text is an aside or a key is not
\* configured, and reaches the backend call when the placeholder post returned
C21_MentionAnsweredWhenAdmitted ==
  \A id \in DOMAIN tasks :
    ( MentionInChannel(tasks[id]) /\ tasks[id].pc = "done" )
    => /\ tasks[id].outcome # "ignored"
       /\ ( /\ ~BeginsWithAside(tasks[id].ev.text)
            /\ MATT_GPT_BEARER_TOKEN /\ OPENROUTER_API_KEY )
          => /\ CallsAt(tasks[id], "thinking") # {}
             /\ ( \E i \in CallsAt(tasks[id], "thinking") : tasks[id].calls[i].ok )
                => CallsAt(tasks[id], "ask") # {}
       /\ BeginsWithAside(tasks[id].ev.text) => tasks[id].calls = <<>>
       /\ ( ~BeginsWithAside(tasks[id].ev.text)
            /\ ~( MATT_GPT_BEARER_TOKEN /\ OPENROUTER_API_KEY ) )
          => CallsAt(tasks[id], "thinking") = {} /\ CallsAt(tasks[id], "config_say") # {}

C21_Witness ==
  \E id \in DOMAIN tasks :
    /\ MentionInChannel(tasks[id]) /\ tasks[id].pc = "done"
    /\ isThreadReply(tasks[id].ev)
    /\ ~HasBotMessages(SubSeq(threads[tasks[id].ev.thread_ts], 1, 2))
    /\ tasks[id].outcome = "delivered"
    /\ CallsAt(tasks[id], "ask") # {}

\* C22: no handler invocation lets an error escape: whichever call fails, the
\* invocation ends normally and no exception leaves the handler
C22_NoErrorEscapes ==
  \A id \in DOMAIN tasks : tasks[id].outcome # "escaped"

\* the calls of an invocation that returned an error
FailedCalls(task) == { i \in 1..Len(task.calls) : ~task.calls[i].ok }

\* the calls whose failure ends the turn: a post or an edit of the try block,
\* or the last attempt of the backend request
EndsTurn(task, i) ==
  /\ i \in FailedCalls(task)
  /\ \/ task.calls[i].step \in { "config_say", "thinking", "update" }
     \/ /\ task.calls[i].step = "ask"
        /\ Cardinality({ j \in CallsAt(task, "ask") : j <= i }) = maxRetries

\* the apology text that the priority order timeout, rate, API assigns
Classified(desc) ==
  CHOOSE t \in ApologyTexts :
    /\ t = TimeoutText <=> Includes(desc, "timeout")
    /\ t = BusyText <=> ~Includes(desc, "timeout") /\ Includes(desc, "rate")
    /\ t = UnavailableText
         <=> ~Includes(desc, "timeout") /\ ~Includes(desc, "rate") /\ Includes(desc, "API")
    /\ t = UnknownText
         <=> ~Includes(desc, "timeout") /\ ~Includes(desc, "rate") /\ ~Includes(desc, "API")

\* the thread of the event holds a message of the app with this text, posted
\* after the event
ApologyInThread(task, text) ==
  /\ Anchor(task.ev) \in DOMAIN threads
  /\ \E k \in 1..Len(threads[Anchor(task.ev)]) :
       /\ threads[Anchor(task.ev)][k].bot_id = OWN_BOT_ID
       /\ threads[Anchor(task.ev)][k].ts > task.ev.ts
       /\ threads[Anchor(task.ev)][k].text = text

\* C23 as stated: when any step of a turn fails, an apology is emitted in the
\* thread, its text chosen by the priority order timeout, rate, API, generic
C23_AnyFailureApologised ==
  \A id \in DOMAIN tasks :
    ( /\ tasks[id].pc = "done"
      /\ \E i \in FailedCalls(tasks[id]) :
           tasks[id].calls[i].step \in { "locate", "thinking", "ask", "update" } )
    => \E t \in ApologyTexts : ApologyInThread(tasks[id], t)

\* C23 amended: when a failure ends the turn (a failed post or edit of the try
\* block, or the last backend attempt), one apology post is attempted in the
\* thread with the text that the priority order timeout, rate, API, generic
\* assigns to the failure description, and the message is in the thread when
\* that post returned; a failed history fetch or a retried backend attempt
\* alone brings no apology; the four texts are pairwise distinct
C23_TurnFailureApologised ==
  /\ Cardinality(ApologyTexts) = 4
  /\ \A id \in DOMAIN tasks :
       ( tasks[id].pc = "done" /\ tasks[id].outcome # "escaped" )
       => /\ ( \E i \in 1..Len(tasks[id].calls) : EndsTurn(tasks[id], i) )
             <=> CallsAt(tasks[id], "apology") # {}
          /\ \A i \in CallsAt(tasks[id], "apology") :
               /\ i = Len(tasks[id].calls) /\ i > 1 /\ EndsTurn(tasks[id], i - 1)
               /\ tasks[id].calls[i].ts = Anchor(tasks[id].ev)
               /\ tasks[id].calls[i].text = Classified(tasks[id].error)
               /\ tasks[id].calls[i].ok
                  => ApologyInThread(tasks[id], Classified(tasks[id].error))

\* a turn ended by a description that holds both "rate" and "API": the busy
\* text is in the thread
C23_Witness ==
  \E id \in DOMAIN tasks :
    /\ tasks[id].pc = "done" /\ tasks[id].outcome = "apologised"
    /\ Includes(tasks[id].error, "rate") /\ Includes(tasks[id].error, "API")
    /\ ApologyInThread(tasks[id], BusyText)

\* the invocations that can handle the posted message
TurnIds == { << path, Len(h) + 1 >> : path \in { "message", "app_mention" }, h \in InitHistories }

\* invocation id is inside processMessageRequest, past the aside check
Processing(id) ==
  /\ id \in DOMAIN tasks
  /\ tasks[id].pc \in { "config_say", "locate", "thinking", "ask", "update", "apology" }

\* invocation id is in one of Locating, ThinkingPosted, AwaitingBackend,
\* Composing or in the catch block
InTurn(id) ==
  /\ id \in DOMAIN tasks
  /\ tasks[id].pc \in { "locate", "thinking", "ask", "update", "apology" }

\* invocation id has ended with one of these outcomes
Ended(id, outcomes) ==
  /\ id \in DOMAIN tasks
  /\ tasks[id].pc = "done" /\ tasks[id].outcome \in outcomes

\* C24 as stated: every invocation that passed admission eventually reaches
\* Delivered or Failed
C24_AdmittedTurnEnds ==
  \A id \in TurnIds :
    Processing(id) ~> Ended(id, { "delivered", "apologised", "gave_up" })

\* C24 amended: every invocation that passed admission eventually ends; it
\* ends Delivered or Failed once it is past the configuration checks, and
\* otherwise after the configuration notice
C24_TurnTerminates ==
  /\ \A id \in TurnIds :
       Processing(id) ~> Ended(id, { "delivered", "apologised", "gave_up", "config_error" })
  /\ \A id \in TurnIds :
       InTurn(id) ~> Ended(id, { "delivered", "apologised", "gave_up" })

\* Failed reached by a turn that went through Locating: the history was
\* fetched, the placeholder post failed and the apology was posted
C24_Witness ==
  \E id \in DOMAIN tasks :
    /\ Ended(id, { "apologised" })
    /\ CallsAt(tasks[id], "locate") # {}
    /\ \E i \in CallsAt(tasks[id], "thinking") : ~tasks[id].calls[i].ok

\* the event names a thread anchor other than its own timestamp
RepliesInThread(ev) == ev.thread_ts # 0 /\ ev.thread_ts # ev.ts

\* C25: the history is fetched for conversation location only for a thread
\* reply, once, at the thread anchor, and every thread reply that reaches the
\* placeholder was preceded by that fetch; for a root-level event no history
\* is fetched at all and the turn is at the placeholder with no located id
C25_LocateOnlyForReplies ==
  \A id \in DOMAIN tasks :
    /\ CallsAt(tasks[id], "locate") # {} => RepliesInThread(tasks[id].ev)
    /\ Cardinality(CallsAt(tasks[id], "locate")) <= 1
    /\ \A i \in CallsAt(tasks[id], "locate") : tasks[id].calls[i].ts = tasks[id].ev.thread_ts
    /\ ( RepliesInThread(tasks[id].ev) /\ CallsAt(tasks[id], "thinking") # {} )
       => CallsAt(tasks[id], "locate") # {}
    /\ ~RepliesInThread(tasks[id].ev)
       => /\ CallsAt(tasks[id], "admit_fetch") = {}
          /\ tasks[id].pc = "thinking"
             => tasks[id].calls = <<>> /\ tasks[id].conversationId = Null
          /\ \A k \in 1..Len(tasks[id].requests) : tasks[id].requests[k].conversation_id = Null

\* a delivered turn for an event whose anchor is its own timestamp: no fetch
C25_Witness ==
  \E id \in DOMAIN tasks :
    /\ Ended(id, { "delivered" })
    /\ tasks[id].ev.thread_ts = tasks[id].ev.ts
    /\ CallsAt(tasks[id], "locate") = {}
    /\ CallsAt(tasks[id], "thinking") # {}

\* C26: within a turn the placeholder is posted once, after the history fetch
\* of conversation location has returned or failed and before every backend
\* request; a backend request is made only after a placeholder post that
\* returned
C26_PlaceholderOrdering ==
  \A id \in DOMAIN tasks :
    /\ Cardinality(CallsAt(tasks[id], "thinking")) <= 1
    /\ \A i \in CallsAt(tasks[id], "thinking") :
         /\ \A j \in CallsAt(tasks[id], "locate") : j < i
         /\ \A k \in CallsAt(tasks[id], "ask") : i < k
         /\ tasks[id].calls[i].ts = Anchor(tasks[id].ev)
    /\ ( CallsAt(tasks[id], "ask") # {} \/ tasks[id].pc = "ask" )
       => \E i \in CallsAt(tasks[id], "thinking") : tasks[id].calls[i].ok
    /\ ( RepliesInThread(tasks[id].ev) /\ tasks[id].pc = "thinking" )
       => CallsAt(tasks[id], "locate") # {}

\* a thread reply whose history fetch failed, whose placeholder was posted
\* and whose backend request was made afterwards
C26_Witness ==
  \E id \in DOMAIN tasks :
    /\ \E j \in CallsAt(tasks[id], "locate") : ~tasks[id].calls[j].ok
    /\ \E i \in CallsAt(tasks[id], "thinking") : tasks[id].calls[i].ok
    /\ CallsAt(tasks[id], "ask") # {}

\* the messages of this app in the thread of the event, posted after the event
OwnSince(task) ==
  { k \in 1..Len(threads[Anchor(task.ev)]) :
      /\ threads[Anchor(task.ev)][k].bot_id = OWN_BOT_ID
      /\ threads[Anchor(task.ev)][k].ts > task.ev.ts }

\* C27: a delivered turn made one placeholder post and one edit and no other
\* post; the edit named the channel of the event and the timestamp of the
\* placeholder, and the thread holds exactly one message of the app posted
\* since the event: the placeholder, now carrying the reply
C27_EditedInPlace ==
  \A id \in DOMAIN tasks :
    Ended(id, { "delivered" })
    => /\ Cardinality(CallsAt(tasks[id], "thinking")) = 1
       /\ Cardinality(CallsAt(tasks[id], "update")) = 1
       /\ CallsAt(tasks[id], "apology") = {} /\ CallsAt(tasks[id], "config_say") = {}
       /\ Cardinality(OwnSince(tasks[id])) = 1
       /\ \A k \in OwnSince(tasks[id]) : \A i \in CallsAt(tasks[id], "update") :
            /\ tasks[id].calls[i].ts = threads[Anchor(tasks[id].ev)][k].ts
            /\ tasks[id].calls[i].channel = threads[Anchor(tasks[id].ev)][k].channel
            /\ tasks[id].calls[i].channel = tasks[id].ev.channel
            /\ threads[Anchor(tasks[id].ev)][k].text = tasks[id].calls[i].text
            /\ threads[Anchor(tasks[id].ev)][k].text # ThinkingText

\* a delivered reply in a thread that already held a reply of the app
C27_Witness ==
  \E id \in DOMAIN tasks :
    /\ Ended(id, { "delivered" })
    /\ RepliesInThread(tasks[id].ev)
    /\ \E k \in 1..Len(threads[Anchor(tasks[id].ev)]) :
         /\ threads[Anchor(tasks[id].ev)][k].bot_id = OWN_BOT_ID
         /\ threads[Anchor(tasks[id].ev)][k].ts < tasks[id].ev.ts
    /\ Cardinality(OwnSince(tasks[id])) = 1

\* C28: after a failed placeholder post or a failed edit the next call of the
\* turn is an apology post in the thread and it is the last call; when the
\* apology post fails too the turn has ended, as given up and not by an
\* exception
C28_OneApologyAttempt ==
  \A id \in DOMAIN tasks :
    /\ \A i \in FailedCalls(tasks[id]) :
         tasks[id].calls[i].step \in { "thinking", "update" }
         => \/ i = Len(tasks[id].calls) /\ tasks[id].pc = "apology"
            \/ /\ Len(tasks[id].calls) = i + 1
               /\ tasks[id].calls[i + 1].step = "apology"
               /\ tasks[id].calls[i + 1].ts = Anchor(tasks[id].ev)
               /\ tasks[id].calls[i + 1].channel = tasks[id].ev.channel
               /\ tasks[id].pc = "done"
    /\ Cardinality(CallsAt(tasks[id], "apology")) <= 1
    /\ \A i \in CallsAt(tasks[id], "apology") :
         /\ i = Len(tasks[id].calls) /\ tasks[id].pc = "done"
         /\ tasks[id].outcome = IF tasks[id].calls[i].ok THEN "apologised" ELSE "gave_up"

\* the edit failed and the apology post failed as well
C28_Witness ==
  \E id \in DOMAIN tasks :
    /\ Ended(id, { "gave_up" })
    /\ \E i \in CallsAt(tasks[id], "update") : ~tasks[id].calls[i].ok
    /\ \E i \in CallsAt(tasks[id], "apology") : ~tasks[id].calls[i].ok

\* C29: no lock serialises the invocations of one thread: the history fetch
\* of an invocation can return whatever the other invocations are doing; an
\* invocation whose fetched history held no recoverable id has located
\* nothing, and each request it sends starts a new conversation
C29_NoThreadLock ==
  \A id \in DOMAIN tasks :
    /\ ( tasks[id].pc = "locate" /\ Quiet /\ Dispatched ) => ENABLED LocateOk(id)
    /\ ( /\ tasks[id].fetch = "ok"
         /\ LocateConversationId(tasks[id].seen) = Null )
       => /\ tasks[id].conversationId = Null
          /\ \A k \in 1..Len(tasks[id].requests) : tasks[id].requests[k].conversation_id = Null

\* a thread reply was delivered with one id after locating nothing, although
\* the history it fetched held the placeholder of another reply of the same
\* thread, and that placeholder now carries a different id
C29_Witness ==
  \E id \in DOMAIN tasks :
    /\ Ended(id, { "delivered" })
    /\ tasks[id].ev.thread_ts = 1
    /\ tasks[id].fetch = "ok" /\ LocateConversationId(tasks[id].seen) = Null
    /\ \E p \in 1..Len(tasks[id].seen) : \E k, m \in 1..Len(threads[1]) :
         /\ tasks[id].seen[p].bot_id = OWN_BOT_ID
         /\ tasks[id].seen[p].text = ThinkingText
         /\ threads[1][k].ts = tasks[id].seen[p].ts
         /\ threads[1][m].ts = tasks[id].thinkingTs
         /\ ExtractConversationId(threads[1][k]) \in BackendIds
         /\ ExtractConversationId(threads[1][m]) \in BackendIds
         /\ ExtractConversationId(threads[1][k]) # ExtractConversationId(threads[1][m])

\* the invocation handles a message posted by a person, and the thread of
\* that message holds no other message posted by a person since the two
\* messages were posted
AloneInThread(task) ==
  /\ task.ev.user = "U1"
  /\ \A k \in 1..Len(threads[Anchor(task.ev)]) :
       ( /\ threads[Anchor(task.ev)][k].bot_id = Null
         /\ threads[Anchor(task.ev)][k].ts >= probe.ev.ts )
       => threads[Anchor(task.ev)][k].ts = task.ev.ts

\* the thread of the event as it was when the event was posted
ThreadAtPost(task) ==
  SelectSeq(threads[Anchor(task.ev)], LAMBDA m : m.ts <= task.ev.ts)

\* the posts of the invocation that returned
PostsMade(task) ==
  { i \in 1..Len(task.calls) :
      task.calls[i].ok /\ task.calls[i].step \in { "thinking", "apology" } }

\* what an invocation that is alone in its thread has seen and emitted
\* depends on its own event and on the results of its own calls only
OwnResultsOnly(task) ==
  /\ task.fetch = "ok" => task.seen = ThreadAtPost(task)
  /\ task.pc \in { "thinking", "ask", "update" } /\ task.fetch = "ok"
     => task.conversationId = LocateConversationId(ThreadAtPost(task))
  /\ task.outcome # "ignored"
     => Cardinality(OwnSince(task)) = Cardinality(PostsMade(task))
  /\ ( task.pc = "done" /\ task.outcome = "delivered" )
     => /\ task.embedded =
             IF task.response.conversation_id # Null THEN task.response.conversation_id
             ELSE IF task.fetch = "ok" THEN LocateConversationId(ThreadAtPost(task))
             ELSE Null
        /\ \A k \in OwnSince(task) :
             /\ threads[Anchor(task.ev)][k].text = task.response.response
             /\ threads[Anchor(task.ev)][k].blocks =
                  CreateMessageWithConversationId(task.response.response, task.embedded,
                                                  Anchor(task.ev)).blocks

\* a step of one invocation leaves the record of every other invocation as
\* it is, and leaves every thread but its own as it is
StepsAreLocal ==
  \A id \in DOMAIN tasks \cap DOMAIN tasks' :
    tasks'[id] # tasks[id]
    => /\ \A other \in (DOMAIN tasks \cap DOMAIN tasks') \ { id } : tasks'[other] = tasks[other]
       /\ \A a \in DOMAIN threads \ { Anchor(tasks[id].ev) } :
            a \in DOMAIN threads' /\ threads'[a] = threads[a]

\* C30: invocations share no mutable state: each step touches one invocation
\* and its thread only, and for an event that is alone in its thread the
\* history seen, the located id, the messages emitted and the id embedded are
\* fixed by the event's thread and the results of the invocation's own calls,
\* whatever the invocation of the other event does or fails to do
C30_TaskIsolation ==
  /\ [](\A id \in DOMAIN tasks : AloneInThread(tasks[id]) => OwnResultsOnly(tasks[id]))
  /\ [][StepsAreLocal]_vars

\* a reply delivered in thread 1 with the id located there, while the
\* invocation for a message of another thread ended in the catch block
C30_Witness ==
  \E id \in DOMAIN tasks :
    /\ Ended(id, { "delivered" })
    /\ tasks[id].ev.thread_ts = 1 /\ AloneInThread(tasks[id])
    /\ tasks[id].conversationId = IdA
    /\ \E a \in DOMAIN threads \ { 1 } : \E k \in 1..Len(threads[a]) :
         /\ threads[a][k].bot_id = OWN_BOT_ID
         /\ threads[a][k].text \in ApologyTexts
         /\ threads[a][k].ts < tasks[id].thinkingTs

\* the newest message of the thread that is by a bot and carries an id
LatestWithId(h) ==
  CHOOSE i \in 1..Len(h) :
    /\ Truthy(h[i].bot_id) /\ Truthy(ExtractConversationId(h[i]))
    /\ \A j \in (i + 1)..Len(h) : ~( Truthy(h[j].bot_id) /\ Truthy(ExtractConversationId(h[j])) )

\* C31: the fetched window is the most recent fetchLimit messages: in a
\* thread longer than that whose newest id-bearing bot message is among the
\* fetchLimit newest, the located id is that message's id and the thread
\* counts as active
C31_WindowIsMostRecent ==
  ( /\ probe.stage = "fetched"
    /\ Len(threads[1]) > fetchLimit
    /\ LatestWithId(threads[1]) > Len(threads[1]) - fetchLimit )
  => /\ probe.conversationId = ExtractConversationId(threads[1][LatestWithId(threads[1])])
     /\ probe.active

\* the text without one leading mention token and the blanks after it
WithoutLeadingMention(text) ==
  IF text # <<>> /\ Head(text) \in MentionTokens
  THEN LET rest == Tail(text)
           blanks == { n \in 0..Len(rest) : \A k \in 1..n : rest[k] \in SpaceTokens }
           n == CHOOSE x \in blanks : \A y \in blanks : y <= x
       IN  SubSeq(rest, n + 1, Len(rest))
  ELSE text

\* the text between its first and its last token that is not a blank
Core(text) ==
  LET solid == { k \in 1..Len(text) : text[k] \notin SpaceTokens }
  IN  IF solid = {} THEN <<>>
      ELSE SubSeq(text, CHOOSE i \in solid : \A j \in solid : i <= j,
                        CHOOSE i \in solid : \A j \in solid : j <= i)

\* C32 as stated: the text tested for the aside marker and sent to the
\* backend is the original text without one leading mention token and the
\* blanks after it, and nothing else is removed
C32_StrippedTextUsed ==
  probe.stage = "cleaned"
  => /\ probe.cleaned = WithoutLeadingMention(probe.text)
     /\ probe.message = probe.cleaned

\* C32 amended: that text is the original text without one leading mention
\* token, then without the blanks at both of its ends; a mention further on
\* stays; the aside test and the backend message use this text
C32_StrippedAndTrimmedTextUsed ==
  probe.stage = "cleaned"
  => /\ probe.cleaned = Core(WithoutLeadingMention(probe.text))
     /\ probe.message = probe.cleaned
     /\ probe.aside <=> ( probe.cleaned # <<>> /\ Head(probe.cleaned) \in AsideMarkers )

\* a text with a mention at its start, a second mention further on and a
\* blank at its end: the second mention stays, the blank goes
C32_Witness ==
  /\ probe.stage = "cleaned"
  /\ Len(probe.text) = 3
  /\ probe.text[1] \in MentionTokens /\ probe.text[2] \in MentionTokens
  /\ probe.text[3] \in SpaceTokens
  /\ probe.cleaned = << probe.text[2] >>

\* C33: every conversation id sent to the backend in a request is an id the
\* backend supplied in a response; the text form of a missing id is never sent
C33_SentIdsComeFromBackend ==
  \A id \in DOMAIN tasks : \A k \in 1..Len(tasks[id].requests) :
    tasks[id].requests[k].conversation_id \in BackendIds \cup { Null }

\* the turn ended in the catch block because the last backend attempt failed
RetriesExhausted(task) ==
  /\ Len(task.calls) > 0
  /\ \E i \in 1..Len(task.calls) :
       /\ EndsTurn(task, i) /\ task.calls[i].step = "ask"

\* the description has this word as one of its tokens or inside one
Mentions(desc, word) ==
  \E i \in 1..Len(desc) :
    desc[i] = word \/ ( word = "rate" /\ desc[i] = "ratelimited" )

\* C34: after the backend client has given up, the description it raised
\* holds "API", and the apology is the timed-out text when the cause of the
\* last attempt mentions "timeout", else the busy text when it mentions
\* "rate", else the temporarily-unavailable text; never the generic text
C34_ExhaustionNeverGeneric ==
  \A id \in DOMAIN tasks :
    RetriesExhausted(tasks[id])
    => /\ Mentions(tasks[id].error, "API")
       /\ Len(tasks[id].causes) = maxRetries
       /\ \A i \in CallsAt(tasks[id], "apology") :
            /\ tasks[id].calls[i].text # UnknownText
            /\ tasks[id].calls[i].text =
                 IF Mentions(tasks[id].causes[maxRetries], "timeout") THEN TimeoutText
                 ELSE IF Mentions(tasks[id].causes[maxRetries], "rate") THEN BusyText
                 ELSE UnavailableText

\* three attempts failed, the last one by a cause that mentions "rate", and
\* the busy text was posted
C34_Witness ==
  \E id \in DOMAIN tasks :
    /\ RetriesExhausted(tasks[id]) /\ Ended(id, { "apologised" })
    /\ Mentions(tasks[id].causes[maxRetries], "rate")
    /\ ~Mentions(tasks[id].causes[maxRetries], "timeout")
    /\ ApologyInThread(tasks[id], BusyText)

\* before the event its thread held a placeholder left as it was or an apology
FailedTurnBefore(ev) ==
  /\ ev.thread_ts \in DOMAIN threads
  /\ \E i \in 1..Len(threads[ev.thread_ts]) :
       /\ threads[ev.thread_ts][i].ts < ev.ts
       /\ threads[ev.thread_ts][i].bot_id = OWN_BOT_ID
       /\ threads[ev.thread_ts][i].text \in { ThinkingText } \cup ApologyTexts

\* no bot message of the thread carries an id, the reply of this invocation
\* set aside
NoIdElsewhere(task) ==
  \A i \in 1..Len(threads[task.ev.thread_ts]) :
    ( /\ threads[task.ev.thread_ts][i].bot_id # Null
      /\ threads[task.ev.thread_ts][i].ts # task.thinkingTs )
    => ~Truthy(ExtractConversationId(threads[task.ev.thread_ts][i]))

\* C35 as stated: a reply without a mention in a thread whose only bot
\* messages are a placeholder or an apology of a failed turn is admitted on
\* the message path, locates no id and asks the backend without an id
C35_FailedThreadStaysActive ==
  \A id \in DOMAIN tasks :
    ( /\ PlainThreadReply(tasks[id]) /\ FailedTurnBefore(tasks[id].ev)
      /\ NoIdElsewhere(tasks[id]) /\ tasks[id].pc # "admit_fetch" )
    => /\ Answering(tasks[id])
       /\ tasks[id].conversationId = Null
       /\ \A k \in 1..Len(tasks[id].requests) : tasks[id].requests[k].conversation_id = Null

\* C35 amended: such a reply is admitted when the history fetch of the
\* message handler returns, and is ignored when that fetch fails; once
\* admitted it locates no id and every request it sends carries no id
C35_FailedThreadActiveOnFetch ==
  \A id \in DOMAIN tasks :
    ( /\ PlainThreadReply(tasks[id]) /\ FailedTurnBefore(tasks[id].ev)
      /\ NoIdElsewhere(tasks[id]) /\ tasks[id].pc # "admit_fetch" )
    => /\ tasks[id].admit = "ok" => Answering(tasks[id])
       /\ tasks[id].admit = "failed"
          => tasks[id].pc = "done" /\ tasks[id].outcome = "ignored"
       /\ tasks[id].conversationId = Null
       /\ \A k \in 1..Len(tasks[id].requests) : tasks[id].requests[k].conversation_id = Null

\* after an apology in a thread without any reply, a plain reply was admitted,
\* fetched the history for location and asked the backend without an id
C35_Witness ==
  \E id \in DOMAIN tasks :
    /\ PlainThreadReply(tasks[id]) /\ FailedTurnBefore(tasks[id].ev)
    /\ NoIdElsewhere(tasks[id])
    /\ \A i \in 1..Len(threads[tasks[id].ev.thread_ts]) :
         threads[tasks[id].ev.thread_ts][i].ts < tasks[id].ev.ts
         => threads[tasks[id].ev.thread_ts][i].bot_id \in { Null, OWN_BOT_ID }
    /\ tasks[id].fetch = "ok"
    /\ Len(tasks[id].requests) >= 1
    /\ tasks[id].requests[1].conversation_id = Null

\* the thread a message belongs to: the thread it names, or the one it starts
ThreadOf(ev) == IF ev.thread_ts # 0 THEN ev.thread_ts ELSE ev.ts

\* C36: the configuration notice, the placeholder and the apology of an
\* invocation are posted to the thread of its event, the payload of the final
\* reply names that thread too, and the thread is never absent: nothing a
\* turn emits lands at channel root, and no thread begins with a message of
\* the app unless it is the pointer message of a direct conversation
C36_EmittedInEventThread ==
  /\ \A id \in DOMAIN tasks :
       /\ \A i \in 1..Len(tasks[id].calls) :
            tasks[id].calls[i].step \in { "config_say", "thinking", "apology" }
            => /\ tasks[id].calls[i].ts = ThreadOf(tasks[id].ev)
               /\ tasks[id].calls[i].ts # 0
               /\ tasks[id].calls[i].channel = tasks[id].ev.channel
       /\ tasks[id].pc = "update" \/ CallsAt(tasks[id], "update") # {}
          => tasks[id].payloadThread = ThreadOf(tasks[id].ev) \/ tasks[id].pc \in { "apology", "done" }
       /\ ( tasks[id].pc = "done" /\ tasks[id].outcome = "delivered" )
          => /\ tasks[id].payloadThread = ThreadOf(tasks[id].ev)
             /\ \E k \in 1..Len(threads[ThreadOf(tasks[id].ev)]) :
                  threads[ThreadOf(tasks[id].ev)][k].ts = tasks[id].thinkingTs
  /\ \A a \in DOMAIN threads :
       threads[a][1].bot_id = OWN_BOT_ID => isDMChannel(threads[a][1].channel)

\* a root-level mention answered: the reply is the second message of the
\* thread that the mention started
C36_Witness ==
  \E id \in DOMAIN tasks :
    /\ Ended(id, { "delivered" })
    /\ tasks[id].ev.thread_ts = 0
    /\ Len(threads[tasks[id].ev.ts]) = 2
    /\ threads[tasks[id].ev.ts][1].ts = tasks[id].ev.ts
    /\ threads[tasks[id].ev.ts][2].ts = tasks[id].thinkingTs
    /\ threads[tasks[id].ev.ts][2].text = tasks[id].response.response

\* one of the two credentials of the backend is missing
NotConfigured == ~MATT_GPT_BEARER_TOKEN \/ ~OPENROUTER_API_KEY

\* the notice that the configuration checks choose: the token is tested first
ConfigNotice == IF ~MATT_GPT_BEARER_TOKEN THEN ConfigErrorText ELSE ConfigKeyErrorText

\* invocation id passed admission and the aside check, and has returned
AdmittedAndReturned(id) ==
  /\ tasks[id].pc = "done"
  /\ tasks[id].outcome \notin { "ignored", "skipped", "redirected", "escaped" }

\* the messages of the app in the thread of the event, posted after it
OwnTextsSince(task) ==
  { threads[Anchor(task.ev)][k].text : k \in OwnSince(task) }

\* nothing of a turn is started while a credential is missing
NoTurnSteps(task) ==
  \A st \in { "locate", "thinking", "ask", "update" } : CallsAt(task, st) = {}

\* C37 as stated: with a credential missing an admitted event leaves exactly
\* one configuration notice in the thread and nothing else, and makes no
\* location fetch, placeholder post, backend request or apology post
C37_ConfigNoticeOnly ==
  NotConfigured =>
    \A id \in DOMAIN tasks :
      /\ NoTurnSteps(tasks[id])
      /\ CallsAt(tasks[id], "apology") = {}
      /\ AdmittedAndReturned(id)
         => /\ Cardinality(OwnSince(tasks[id])) = 1
            /\ OwnTextsSince(tasks[id]) = { ConfigNotice }

\* C37: with a credential missing an admitted event makes exactly one attempt
\* to post the configuration notice (the token is tested first) and no
\* location fetch, placeholder post, backend request or edit; when that post
\* succeeds the notice is the only message left in the thread and no apology
\* is attempted, and when it fails one apology post is attempted
C37_ConfigNoticeOrApology ==
  NotConfigured =>
    \A id \in DOMAIN tasks :
      /\ NoTurnSteps(tasks[id])
      /\ Cardinality(CallsAt(tasks[id], "config_say")) <= 1
      /\ \A i \in CallsAt(tasks[id], "config_say") :
           /\ tasks[id].calls[i].text = ConfigNotice
           /\ tasks[id].calls[i].ok => CallsAt(tasks[id], "apology") = {}
      /\ CallsAt(tasks[id], "apology") # {} => FailedCalls(tasks[id]) \cap CallsAt(tasks[id], "config_say") # {}
      /\ AdmittedAndReturned(id)
         => /\ Cardinality(CallsAt(tasks[id], "config_say")) = 1
            /\ \A i \in CallsAt(tasks[id], "config_say") :
                 IF tasks[id].calls[i].ok
                 THEN /\ Cardinality(OwnSince(tasks[id])) = 1
                      /\ OwnTextsSince(tasks[id]) = { ConfigNotice }
                 ELSE /\ Cardinality(CallsAt(tasks[id], "apology")) = 1
                      /\ OwnTextsSince(tasks[id]) \cap { ConfigErrorText, ConfigKeyErrorText } = {}

\* the model key is missing and a mention was answered with the key notice
C37_Witness ==
  /\ MATT_GPT_BEARER_TOKEN /\ ~OPENROUTER_API_KEY
  /\ \E id \in DOMAIN tasks :
       /\ Ended(id, { "config_error" })
       /\ OwnTextsSince(tasks[id]) = { ConfigKeyErrorText }
       /\ Len(tasks[id].calls) = 1

\* ------------------------------------------------------------------------
\* The client-minting variant of the handler (src/unnamed/part_000): one
\* app.message handler that answers every message of a person in the
\* monitored channel, mints the conversation id itself and sends it to the
\* backend in the context of the request
\* ------------------------------------------------------------------------
\* values uuidv4() may return
Uuids == { <<"u", "1">>, <<"u", "2">> }

MintModel == "anthropic/claude-3.5-sonnet"

\* app.message of the variant from its first statement to its first await;
\* u is the value uuidv4() returns if it is called
MintMessageHandler(task, u) ==
  LET ev == task.ev
  IN  IF MONITORED_CHANNEL # "" /\ ev.channel # MONITORED_CHANNEL THEN Ignored(task)
      ELSE IF ev.subtype # "" /\ ev.subtype # "thread_broadcast" THEN Ignored(task)
      ELSE IF Truthy(ev.bot_id) THEN Ignored(task)
      ELSE IF ~MATT_GPT_BEARER_TOKEN
        THEN [ task EXCEPT !.pc = "config_say", !.sayText = ConfigErrorText ]
      ELSE IF isThreadReply(ev) THEN [ task EXCEPT !.pc = "locate" ]
      ELSE [ task EXCEPT !.pc = "thinking", !.conversationId = u ]

\* the platform delivers a message event to the variant
MintDeliverMessage(del, u) ==
  /\ del \in inbox /\ del.path = "message" /\ Quiet
  /\ inbox' = inbox \ { del }
  /\ tasks' = tasks @@ (TaskId(del) :> MintMessageHandler(NewTask(del), u))
  /\ UNCHANGED << config, probe, threads, clock, posts >>

\* if (!conversationId) conversationId = uuidv4()
MintIfNone(conversationId, u) == IF Truthy(conversationId) THEN conversationId ELSE u

\* conversations.replies returned, the scan ran, an id is minted if none was found
MintLocateOk(id, u) ==
  /\ At(id, "locate")
  /\ LET messages == Replies(tasks[id].ev.thread_ts)
     IN  Set(id, Did([ tasks[id] EXCEPT !.pc = "thinking", !.fetch = "ok",
                     !.seen = messages,
                     !.conversationId = MintIfNone(LocateConversationId(messages), u) ],
                  "locate", TRUE, tasks[id].ev.thread_ts, <<>>))
  /\ UNCHANGED << config, probe, threads, clock, inbox, posts >>

\* conversations.replies threw: logged, an id is minted
MintLocateFails(id, u) ==
  /\ At(id, "locate")
  /\ Set(id, Did([ tasks[id] EXCEPT !.pc = "thinking", !.fetch = "failed",
                 !.seen = threads[tasks[id].ev.thread_ts],
                 !.conversationId = MintIfNone(Null, u) ],
                  "locate", FALSE, tasks[id].ev.thread_ts, <<>>))
  /\ UNCHANGED << config, probe, threads, clock, inbox, posts >>

\* body of the POST of one attempt of the variant's callMattGPTWithRetry
MintRequestPayload(message, context) ==
  [ message |-> message, context |-> context, model |-> MintModel ]

\* the reply embedding the id of the backend's response when it has one
MintAttemptSucceeds_backendIdWins(id, resp) ==
  /\ At(id, "ask")
  /\ Set(id, Did([ tasks[id] EXCEPT
        !.requests = Append(@, MintRequestPayload(tasks[id].ev.text, ApiContext(tasks[id]))),
        !.response = resp,
        !.embedded = ResponseConversationId(resp.conversation_id, tasks[id].conversationId),
        !.payloadThread = Anchor(tasks[id].ev),
        !.pc = "update" ],
                  "ask", TRUE, 0, tasks[id].ev.text))
  /\ UNCHANGED << config, probe, threads, clock, inbox, posts >>

\* one attempt returns a 2xx response; the payload of the reply is built
\* with the handler's own conversationId
MintAttemptSucceeds(id, resp) ==
  /\ At(id, "ask")
  /\ Set(id, Did([ tasks[id] EXCEPT
        !.requests = Append(@, MintRequestPayload(tasks[id].ev.text, ApiContext(tasks[id]))),
        !.response = resp,
        !.embedded = tasks[id].conversationId,
        !.payloadThread =
          CreateMessageWithConversationId(resp.response, tasks[id].conversationId,
                                          Anchor(tasks[id].ev)).thread_ts,
        !.pc = "update" ],
                  "ask", TRUE, 0, tasks[id].ev.text))
  /\ UNCHANGED << config, probe, threads, clock, inbox, posts >>

\* one attempt fails: rethrow after the last one, otherwise back off and loop
MintAttemptFails(id, cause) ==
  /\ At(id, "ask")
  /\ LET task == [ tasks[id] EXCEPT
                     !.requests = Append(@, MintRequestPayload(tasks[id].ev.text, ApiContext(tasks[id]))),
                     !.causes = Append(@, cause) ]
     IN  Set(id, Did(IF task.attempt = maxRetries
                 THEN Caught(task, RetryError(maxRetries, cause))
                 ELSE [ task EXCEPT !.delays = Append(@, Delay(task.attempt)),
                                    !.attempt = @ + 1 ],
                  "ask", FALSE, 0, tasks[id].ev.text))
  /\ UNCHANGED << config, probe, threads, clock, inbox, posts >>

MintConfigs == { << "C1", TRUE >>, << "", TRUE >>, << "C1", FALSE >> }
MintChannels == { "C1", "C2" }
MintTexts == { << "hello" >>, << BotMention, " ", "hello" >> }

\* somebody has just posted a message; the variant has no model key and
\* handles message events only
InitMinting ==
  /\ \E c \in MintConfigs :
       /\ MONITORED_CHANNEL = c[1]
       /\ MATT_GPT_BEARER_TOKEN = c[2]
       /\ OPENROUTER_API_KEY = TRUE
  /\ \E channel \in MintChannels, author \in Authors, text \in MintTexts :
     \E h \in HistoriesIn(channel) :
     \E a \in { 0, 1, Len(h) + 1 } :
       LET ts == Len(h) + 1
           ev == [ channel |-> channel, user |-> author.user, ts |-> ts,
                   thread_ts |-> a, text |-> text, bot_id |-> author.bot_id,
                   bot_profile |-> author.bot_profile, subtype |-> author.subtype ]
       IN  /\ threads = AppendTo((1 :> h), Anchor(ev),
                           Entry(ts, channel, ev.user, ev.bot_id, text, <<>>))
           /\ clock = ts + 1
           /\ inbox = { [ path |-> "message", ev |-> ev ] }
           /\ probe = [ stage |-> "posted", ev |-> ev ]
  /\ tasks = [ x \in {} |-> 0 ]
  /\ posts = 1

NextMinting ==
  \/ \E del \in inbox, u \in Uuids : MintDeliverMessage(del, u)
  \/ \E id \in DOMAIN tasks : ConfigSayOk(id)
  \/ \E id \in DOMAIN tasks : ConfigSayFails(id, PlatformError)
  \/ \E id \in DOMAIN tasks, u \in Uuids : MintLocateOk(id, u)
  \/ \E id \in DOMAIN tasks, u \in Uuids : MintLocateFails(id, u)
  \/ \E id \in DOMAIN tasks : PostThinkingOk(id)
  \/ \E id \in DOMAIN tasks : PostThinkingFails(id, PlatformError)
  \/ \E id \in DOMAIN tasks, resp \in Responses : MintAttemptSucceeds(id, resp)
  \/ \E id \in DOMAIN tasks, cause \in RaceCauses : MintAttemptFails(id, cause)
  \/ \E id \in DOMAIN tasks : UpdateOk(id)
  \/ \E id \in DOMAIN tasks : UpdateFails(id, PlatformError)
  \/ \E id \in DOMAIN tasks : ApologyOk(id)
  \/ \E id \in DOMAIN tasks : ApologyFails(id)
  \/ \E id \in DOMAIN tasks : Return(id)

SpecMinting == InitMinting /\ [][NextMinting]_vars

\* the ids of the requests an invocation has sent
SentIds(task) == { task.requests[i].context.conversation_id : i \in 1..Len(task.requests) }

\* the thread as it was when the event's message was posted holds an id
\* on a message of a bot
HasLocatable(task) ==
  \E i \in 1..Len(ThreadAtPost(task)) :
    /\ Truthy(ThreadAtPost(task)[i].bot_id)
    /\ Truthy(ExtractConversationId(ThreadAtPost(task)[i]))

\* the id of the turn: the newest id of the thread when the event is a reply,
\* the history was fetched and holds one, otherwise a minted one
TurnIdIs(task, c) ==
  IF RepliesInThread(task.ev) /\ task.fetch = "ok" /\ HasLocatable(task)
  THEN c = ExtractConversationId(ThreadAtPost(task)[LatestWithId(ThreadAtPost(task))])
  ELSE c \in Uuids

\* the message the invocation posted as its placeholder
PlaceholderOf(task) ==
  CHOOSE m \in { threads[Anchor(task.ev)][k] : k \in 1..Len(threads[Anchor(task.ev)]) } :
    m.ts = task.thinkingTs

\* C38: in the client-minting variant the id of a turn is fixed before the
\* placeholder is posted (the located id when the fetched history holds one,
\* otherwise a minted UUID), every request of the turn carries that id in its
\* context, and the delivered reply embeds the id that the requests carried
C38_SentIdIsEmbeddedId ==
  \A id \in DOMAIN tasks :
    /\ tasks[id].pc \in { "thinking", "ask", "update" }
       => /\ Truthy(tasks[id].conversationId)
          /\ TurnIdIs(tasks[id], tasks[id].conversationId)
          /\ SentIds(tasks[id]) \subseteq { tasks[id].conversationId }
    /\ Cardinality(SentIds(tasks[id])) <= 1
    /\ \A c \in SentIds(tasks[id]) : Truthy(c) /\ CallsAt(tasks[id], "thinking") # {}
    /\ Ended(id, { "delivered" })
       => /\ SentIds(tasks[id]) = { tasks[id].embedded }
          /\ TurnIdIs(tasks[id], tasks[id].embedded)
          /\ ExtractConversationId(PlaceholderOf(tasks[id])) = tasks[id].embedded
          /\ \A i \in 1..Len(PlaceholderOf(tasks[id]).blocks) :
               PlaceholderOf(tasks[id]).blocks[i].block_id
                 = <<"c", "o", "n", "v", "_">> \o tasks[id].embedded

\* a reply in a thread without an id was answered after a retry: the two
\* requests carried the minted id, the backend answered with another id, and
\* the reply embeds the minted one
C38_Witness ==
  \E id \in DOMAIN tasks :
    /\ Ended(id, { "delivered" })
    /\ RepliesInThread(tasks[id].ev) /\ tasks[id].fetch = "ok"
    /\ Len(tasks[id].requests) = 2
    /\ tasks[id].embedded \in Uuids
    /\ SentIds(tasks[id]) = { tasks[id].embedded }
    /\ tasks[id].response.conversation_id = IdA
    /\ ExtractConversationId(PlaceholderOf(tasks[id])) = tasks[id].embedded

====
